---- MODULE Spec2Model ----
(***************************************************************************)
(* A model of the window bring-up layer of the navigator:                  *)
(*   - MainWindowComponents, the component registry                        *)
(*     (widgets/main_window/__init__.py),                                  *)
(*   - SignalWatcher, the join barrier of utils/signal_watcher (the module *)
(*     is imported by the window; its behaviour is taken from the design   *)
(*     description),                                                       *)
(*   - IssueSolverPool and its issue collection (issue_solvers and         *)
(*     utils/notifications, imported by the window; behaviour taken from   *)
(*     the design description),                                            *)
(*   - MainWindow's start-up: __init__, pre_visible_setup, the two         *)
(*     completion slots, initial_setup, and the refreshes handled by       *)
(*     __reset_conda_data,                                                 *)
(*   - MainWindow in use: _conda_output_ready, show_api_health_label, the  *)
(*     menu actions, check_for_updates and update_application,             *)
(*     set_busy_status and the timers, show_cancel_process, closing,       *)
(*     closeEvent and restart,                                             *)
(*   - the style sheet loader of utils/styles.py and main() of app/main.py.*)
(*                                                                         *)
(* The specifications share the variables:                                 *)
(*   RegistrySpec  any sequence of calls on one MainWindowComponents,      *)
(*   WatcherSpec   any sequence of calls on one SignalWatcher,             *)
(*   PoolSpec      any pool, and any sequence of solve and only calls,     *)
(*   Spec          the window, from construction on,                       *)
(*   OutputSpec    _conda_output_ready applied to every completion,        *)
(*   SessionSpec   the window from construction on, with conda actions,    *)
(*                 the health timer and menu actions,                      *)
(*   DialogSpec    any sequence of update checks and update dialogs,       *)
(*   BusySpec      any sequence of set_busy_status calls,                  *)
(*   CloseSpec     any sequence of close events and restarts,              *)
(*   CancelSpec    any sequence of cancel requests,                        *)
(*   UpdateSpec    any sequence of update checks with any packages,        *)
(*   ScaleSpec     scale_pixels on one pixel value (utils/styles.py),      *)
(*   StyleSpec     any sequence of loads of the SASS variables,            *)
(*   MainSpec      one run of main() (app/main.py).                        *)
(***************************************************************************)
EXTENDS Integers, Sequences, FiniteSets, TLC

VARIABLES
    components,   \* MainWindowComponents.__content: insertion-ordered dict,
                  \*   a sequence of [alias, comp]
    constructed,  \* number of component initializers called so far
    result,       \* outcome of the last call made on the registry / watcher
    watcher,      \* the SignalWatcher
    calls,        \* invocations of the watcher's callback, oldest first
    hist,         \* history of the calls made (on the watcher, the registry)
    inflight,     \* completions emitted by workers and not yet delivered
    win,          \* MainWindow's own fields
    pool,         \* an IssueSolverPool and the outcome of the calls made on it
    SASS_VARIABLES  \* utils/styles.py: the module's global SassVariables

vars == <<components, constructed, result, watcher, calls, hist, inflight, win,
         pool, SASS_VARIABLES>>

\* Python's None, and the string standing for "no exception was raised".
None == "None"

(***************************************************************************)
(* MainWindowComponents                                                    *)
(***************************************************************************)

\* A component object: the initializer class that built it and the ordinal
\* of its construction (its identity).
NoComponent == [cls |-> None, id |-> 0]

\* Component initializers.  alias = None models an initializer without an
\* __alias__ attribute (getattr(component, '__alias__', None)).
WindowInitializers ==
    { [cls |-> "NotificationsComponent", alias |-> "notifications"],
      [cls |-> "WhatsNewComponent",      alias |-> "whats_new"],
      [cls |-> "AccountsComponent",      alias |-> "accounts"],
      [cls |-> "ApplicationsComponent",  alias |-> "applications"],
      [cls |-> "EnvironmentsComponent",  alias |-> "environments"] }

\* Names that normal attribute lookup finds on a MainWindowComponents before
\* __getattr__ is consulted: its own methods and the Mapping mixin methods.
ClassAttributes ==
    { "push", "for_each", "setup", "update_style_sheet", "start_timers",
      "stop_timers", "get", "keys", "items", "values" }

\* `not key` for an Optional[str].
Falsy(key) == key = None \/ key = ""

Keys(content) == { content[i].alias : i \in 1..Len(content) }

IndexOf(content, key) == CHOOSE i \in 1..Len(content) : content[i].alias = key

\* MainWindowComponents.push: the new content, the construction count and the
\* exception raised (None when the call returned).
push_NoDuplicateCheck(content, cnt, component) ==
    LET key == component.alias IN
    IF Falsy(key)
    THEN [content |-> content, constructed |-> cnt, raised |-> "ValueError"]
    ELSE LET comp == [cls |-> component.cls, id |-> cnt + 1]
         IN  [content |-> IF key \in Keys(content)
                          THEN [i \in 1..Len(content) |->
                                  IF content[i].alias = key
                                  THEN [alias |-> key, comp |-> comp]
                                  ELSE content[i]]
                          ELSE Append(content, [alias |-> key, comp |-> comp]),
              constructed |-> cnt + 1,
              raised |-> None]

push_NoAliasCheck(content, cnt, component) ==
    LET key == component.alias IN
    IF key \in Keys(content)
    THEN [content |-> content, constructed |-> cnt, raised |-> "KeyError"]
    ELSE [content |-> Append(content,
                        [alias |-> key,
                         comp |-> [cls |-> component.cls, id |-> cnt + 1]]),
          constructed |-> cnt + 1,
          raised |-> None]

push(content, cnt, component) ==
    LET key == component.alias IN
    IF Falsy(key)
    THEN [content |-> content, constructed |-> cnt, raised |-> "ValueError"]
    ELSE IF key \in Keys(content)
    THEN [content |-> content, constructed |-> cnt, raised |-> "KeyError"]
    ELSE [content |-> Append(content,
                        [alias |-> key,
                         comp |-> [cls |-> component.cls, id |-> cnt + 1]]),
          constructed |-> cnt + 1,
          raised |-> None]

\* MainWindowComponents.__getitem__: self.__content[key].
getitem_ReturnsNone(content, key) ==
    IF key \in Keys(content)
    THEN [value |-> content[IndexOf(content, key)].comp, raised |-> None]
    ELSE [value |-> NoComponent, raised |-> None]

getitem(content, key) ==
    IF key \in Keys(content)
    THEN [value |-> content[IndexOf(content, key)].comp, raised |-> None]
    ELSE [value |-> NoComponent, raised |-> "KeyError"]

\* Attribute access components.<key>: Python consults __getattr__ only when
\* normal lookup fails, so a name of the class yields the class's own
\* attribute (a bound method); __getattr__ turns KeyError into AttributeError.
getattr(content, key) ==
    IF key \in ClassAttributes
    THEN [value |-> [cls |-> "bound method", id |-> 0], raised |-> None]
    ELSE LET r == getitem(content, key) IN
         IF r.raised = "KeyError"
         THEN [value |-> NoComponent, raised |-> "AttributeError"]
         ELSE r

\* Mapping.get, inherited from typing.Mapping: self[key], and the default
\* (None) when that raises KeyError.
get(content, key) ==
    LET r == getitem(content, key) IN
    IF r.raised = "KeyError"
    THEN [value |-> NoComponent, raised |-> None]
    ELSE r

\* MainWindowComponents.for_each.  The action is described by the aliases of
\* the components for which it raises.  visited: the components the action
\* was called with, in call order.
for_each_CollectAndContinue(content, fails) ==
    [visited |-> [i \in 1..Len(content) |-> content[i].comp],
     raised  |-> IF Keys(content) \cap fails = {} THEN None ELSE "Exception"]

for_each_NewestFirst(content, fails) ==
    LET n   == Len(content)
        rev == [i \in 1..n |-> content[n + 1 - i]]
        bad == { i \in 1..n : rev[i].alias \in fails }
        k   == IF bad = {} THEN n
               ELSE CHOOSE i \in bad : \A j \in bad : i <= j
    IN  [visited |-> [i \in 1..k |-> rev[i].comp],
         raised  |-> IF bad = {} THEN None ELSE "Exception"]

for_each(content, fails) ==
    LET n   == Len(content)
        bad == { i \in 1..n : content[i].alias \in fails }
        k   == IF bad = {} THEN n
               ELSE CHOOSE i \in bad : \A j \in bad : i <= j
    IN  [visited |-> [i \in 1..k |-> content[i].comp],
         raised  |-> IF bad = {} THEN None ELSE "Exception"]

\* The proxy methods: each is one for_each over a lambda calling the method.
setup(content, fails) == for_each(content, fails)

update_style_sheet(content, fails) == for_each(content, fails)

start_timers(content, fails) == for_each(content, fails)

stop_timers(content, fails) == for_each(content, fails)

BroadcastOps ==
    { "for_each", "setup", "update_style_sheet", "start_timers", "stop_timers" }

broadcast(op, content, fails) ==
    CASE op = "for_each"           -> for_each(content, fails)
      [] op = "setup"              -> setup(content, fails)
      [] op = "update_style_sheet" -> update_style_sheet(content, fails)
      [] op = "start_timers"       -> start_timers(content, fails)
      [] op = "stop_timers"        -> stop_timers(content, fails)

(***************************************************************************)
(* SignalWatcher (utils/signal_watcher).                                   *)
(*   pending   names registered and not yet received                       *)
(*   received  registered names already received                           *)
(*   acc       the payloads to hand to the callback: one entry per name    *)
(*             delivered with propagate_callback_args (the last delivery   *)
(*             of a name wins), in order of receipt                        *)
(*   fired     the callback has been invoked                               *)
(***************************************************************************)

RECURSIVE Flatten(_)
Flatten(acc) ==
    IF acc = <<>> THEN <<>> ELSE Head(acc).args \o Flatten(Tail(acc))

\* SignalWatcher(callback=...)
SignalWatcher == [pending |-> {}, received |-> {}, acc |-> <<>>, fired |-> FALSE]

\* register_signal(name)
register_signal_NoFiredCheck(w, name) ==
    [watcher |-> [w EXCEPT !.pending = @ \cup {name}], raised |-> None]

register_signal(w, name) ==
    IF w.fired
    THEN [watcher |-> w, raised |-> "WatcherAlreadyFiredError"]
    ELSE [watcher |-> [w EXCEPT !.pending = @ \cup {name}], raised |-> None]

\* The payload list after a delivery of `name`: last writer per name.
Accumulate(acc, name, args, propagate) ==
    LET others == SelectSeq(acc, LAMBDA e : e.name # name) IN
    IF propagate THEN Append(others, [name |-> name, args |-> args]) ELSE others

\* signal_received(name, *payload, propagate_callback_args=...): the new
\* watcher, whether the callback was invoked by this call, and with what.
signal_received_FiresOnFirst(w, name, args, propagate) ==
    IF w.fired \/ name \notin w.pending \cup w.received
    THEN [watcher |-> w, invoked |-> FALSE, cbargs |-> <<>>]
    ELSE LET acc == Accumulate(w.acc, name, args, propagate) IN
         [watcher |-> [pending |-> w.pending \ {name},
                       received |-> w.received \cup {name},
                       acc |-> acc, fired |-> TRUE],
          invoked |-> TRUE, cbargs |-> Flatten(acc)]

signal_received_NoFiredFlag(w, name, args, propagate) ==
    LET acc  == Accumulate(w.acc, name, args, propagate)
        left == w.pending \ {name}
    IN  [watcher |-> [pending |-> left, received |-> w.received \cup {name},
                      acc |-> acc, fired |-> left = {}],
         invoked |-> left = {}, cbargs |-> Flatten(acc)]

signal_received_LatePayload(w, name, args, propagate) ==
    LET acc == Accumulate(w.acc, name, args, propagate) IN
    IF name \notin w.pending \cup w.received
    THEN [watcher |-> w, invoked |-> FALSE, cbargs |-> <<>>]
    ELSE IF name \notin w.pending
    THEN [watcher |-> [w EXCEPT !.acc = acc], invoked |-> FALSE, cbargs |-> <<>>]
    ELSE LET left == w.pending \ {name} IN
         [watcher |-> [pending |-> left, received |-> w.received \cup {name},
                       acc |-> acc, fired |-> left = {}],
          invoked |-> left = {}, cbargs |-> Flatten(acc)]

signal_received(w, name, args, propagate) ==
    LET acc == Accumulate(w.acc, name, args, propagate) IN
    IF w.fired
    THEN \* after firing: a no-op
         [watcher |-> w, invoked |-> FALSE, cbargs |-> <<>>]
    ELSE IF name \notin w.pending \cup w.received
    THEN \* a name that was never registered: ignored
         [watcher |-> w, invoked |-> FALSE, cbargs |-> <<>>]
    ELSE IF name \notin w.pending
    THEN \* a repeated delivery before completion: its payload replaces the
         \* earlier one, and nothing fires
         [watcher |-> [w EXCEPT !.acc = acc], invoked |-> FALSE, cbargs |-> <<>>]
    ELSE LET left == w.pending \ {name} IN
         [watcher |-> [pending |-> left, received |-> w.received \cup {name},
                       acc |-> acc, fired |-> left = {}],
          invoked |-> left = {}, cbargs |-> Flatten(acc)]

(***************************************************************************)
(* IssueSolverPool and the issue collection (issue_solvers, notifications: *)
(* the modules are imported by the window; their behaviour is taken from   *)
(* the design description).                                                *)
(*   An issue is [kind, tags]; a collection is a sequence of issues.       *)
(*   A handler is [name, kind, issue]:                                     *)
(*     kind "fixed"        returns its one issue,                          *)
(*     kind "empty"        returns no issue,                               *)
(*     kind "default_env"  returns its issue when the payload of the       *)
(*                         context lacks the default environment,          *)
(*     kind "summary"      returns its issue when an issue found earlier   *)
(*                         in the run is tagged conflict,                  *)
(*     kind "raises"       raises.                                         *)
(***************************************************************************)

\* Handlers a pool is built from in the model.
MaxHandlers == 3

\* Runs of one pool that the model counts.
MaxRuns == 2

NoIssue == [kind |-> None, tags |-> {}]

PoolTags == { "default_env", "config", "conflict" }

PoolHandlers ==
    { [name |-> "default_env_solver", kind |-> "default_env",
       issue |-> [kind |-> "default_env_missing",
                  tags |-> { "default_env", "conflict" }]],
      [name |-> "channels_solver", kind |-> "fixed",
       issue |-> [kind |-> "bad_channels", tags |-> { "config" }]],
      [name |-> "ssl_solver", kind |-> "fixed",
       issue |-> [kind |-> "bad_ssl", tags |-> { "config", "conflict" }]],
      [name |-> "summary_solver", kind |-> "summary",
       issue |-> [kind |-> "conflicts_found", tags |-> { "summary" }]],
      [name |-> "noop_solver", kind |-> "empty", issue |-> NoIssue],
      [name |-> "broken_solver", kind |-> "raises", issue |-> NoIssue] }

\* The pools that can be constructed: the handler order is fixed then.
HandlerSeqs == UNION { [1..n -> PoolHandlers] : n \in 0..MaxHandlers }

\* What a handler returns for the context and the issues it can read.
handle(handler, context, issues) ==
    CASE handler.kind = "fixed" ->
            [issues |-> << handler.issue >>, raised |-> None]
      [] handler.kind = "empty" ->
            [issues |-> <<>>, raised |-> None]
      [] handler.kind = "default_env" ->
            [issues |-> IF context.conda_info = "conda_info_without_default_env"
                        THEN << handler.issue >> ELSE <<>>,
             raised |-> None]
      [] handler.kind = "summary" ->
            [issues |-> IF \E i \in 1..Len(issues) :
                              "conflict" \in issues[i].tags
                        THEN << handler.issue >> ELSE <<>>,
             raised |-> None]
      [] handler.kind = "raises" ->
            [issues |-> <<>>, raised |-> "HandlerError"]

\* One handler called with the context and the issues found so far in the
\* run: what it returned and what it was given to read.
call_ReadsNothing(handler, context, issues) ==
    [out |-> handle(handler, context, <<>>), read |-> <<>>]

call(handler, context, issues) ==
    [out |-> handle(handler, context, issues), read |-> issues]

\* The fold of a pool run from handler k on: run is [issues, invoked,
\* raised, reads, outs], invoked being the positions of the handlers called,
\* in call order, reads what each of them was given to read and outs what
\* each returned.  A handler that raises ends the run.
RECURSIVE run_handlers(_, _, _, _)
run_handlers(handlers, context, k, run) ==
    IF k > Len(handlers) THEN run
    ELSE LET c == call(handlers[k], context, run.issues)
             r == c.out
             next == [issues  |-> run.issues \o r.issues,
                      invoked |-> Append(run.invoked, k),
                      raised  |-> r.raised,
                      reads   |-> Append(run.reads, c.read),
                      outs    |-> Append(run.outs, r.issues)]
         IN  IF r.raised # None THEN next
             ELSE run_handlers(handlers, context, k + 1, next)

\* IssueSolverPool.solve(context): whether a collection is returned, the
\* collection, the handlers invoked and the exception that reached the
\* caller (None: solve returned).
solve_NewestFirst(handlers, context) ==
    LET run == run_handlers(handlers, context, 1,
                   [issues |-> <<>>, invoked |-> <<>>, raised |-> None,
                    reads |-> <<>>, outs |-> <<>>])
        n == Len(run.issues)
    IN  [returned |-> run.raised = None,
         issues   |-> IF run.raised = None
                      THEN [i \in 1..n |-> run.issues[n + 1 - i]] ELSE <<>>,
         invoked  |-> run.invoked,
         raised   |-> run.raised,
         reads    |-> run.reads,
         outs     |-> run.outs]

solve_SwallowsError(handlers, context) ==
    LET run == run_handlers(handlers, context, 1,
                   [issues |-> <<>>, invoked |-> <<>>, raised |-> None,
                    reads |-> <<>>, outs |-> <<>>])
    IN  [returned |-> TRUE,
         issues   |-> run.issues,
         invoked  |-> run.invoked,
         raised   |-> None,
         reads    |-> run.reads,
         outs     |-> run.outs]

solve(handlers, context) ==
    LET run == run_handlers(handlers, context, 1,
                   [issues |-> <<>>, invoked |-> <<>>, raised |-> None,
                    reads |-> <<>>, outs |-> <<>>])
    IN  [returned |-> run.raised = None,
         issues   |-> IF run.raised = None THEN run.issues ELSE <<>>,
         invoked  |-> run.invoked,
         raised   |-> run.raised,
         reads    |-> run.reads,
         outs     |-> run.outs]

\* collection.only(tags=T): the collection returned (value) and the
\* collection it was called on, as the call leaves it.
only_EveryTag(issues, tags) ==
    [value      |-> SelectSeq(issues, LAMBDA i : tags \subseteq i.tags),
     collection |-> issues]

only(issues, tags) ==
    [value      |-> SelectSeq(issues, LAMBDA i : i.tags \cap tags # {}),
     collection |-> issues]

\* A pool before any call: its handlers, then the outcome of the last solve
\* (the payload of its context, whether it returned, the collection held by
\* the caller, the handlers invoked, what each read and returned, and how
\* many runs were made, counted up to MaxRuns) and of the last only (its tags and the
\* collection it returned).
NoPool ==
    [handlers |-> <<>>, solved |-> FALSE, conda_info |-> None,
     returned |-> FALSE, issues |-> <<>>, invoked |-> <<>>,
     reads |-> <<>>, outs |-> <<>>, runs |-> 0,
     only_tags |-> {}, only_value |-> <<>>]

(***************************************************************************)
(* Shared shapes                                                           *)
(***************************************************************************)

\* utils/styles.py.  A value of a SASS variable: an int or a str, written
\* as its text; NoValue: the object has no such attribute.
IntValue(text) == [kind |-> "int", text |-> text]

StrValue(text) == [kind |-> "str", text |-> text]

NoValue == [kind |-> "absent", text |-> ""]

\* Names of SASS variables in the model: two that SassVariables.__init__
\* sets (an int and a str), and two that it does not.
SassNames ==
    { "WIDGET_CONTENT_PADDING", "COLOR_FOREGROUND_UPGRADE", "FONT_SIZE",
      "font_size" }

\* SassVariables(): the attributes of a fresh object.
SassVariables ==
    [n \in SassNames |->
        IF n = "WIDGET_CONTENT_PADDING" THEN IntValue("5")
        ELSE IF n = "COLOR_FOREGROUND_UPGRADE" THEN StrValue("#00A3E0")
        ELSE NoValue]

\* The outcome of a call: what was called with which key / alias / name,
\* the exception raised (None: it returned), the value returned by a lookup,
\* the components a broadcast visited and the aliases its action fails for,
\* whether the watcher's callback ran inside the call, and whether the
\* watcher had already fired when the call was made.
Res(op, arg) ==
    [op |-> op, arg |-> arg, raised |-> None, value |-> NoComponent,
     visited |-> <<>>, fails |-> {}, invoked |-> FALSE, late |-> FALSE]

\* The history of the calls made on the watcher: the names whose
\* registration succeeded, the names delivered, whether the calls so far are
\* registrations followed by one delivery of each registered name (clean),
\* whether a never-registered name was delivered (stray), whether a name was
\* delivered again before completion (dup); for the window's watcher also
\* the names in order of delivery, the position in that order of each
\* delivery that invoked the callback, and the payload that came with the
\* 'conda_data_ready' delivery, and the payloads the conda_data workers
\* delivered, in order of delivery.  For the registry: whether a
\* registration was rejected so far.
NoHist ==
    [registered |-> {}, delivered |-> {}, clean |-> TRUE,
     stray |-> FALSE, dup |-> FALSE,
     order |-> <<>>, firedAt |-> <<>>, data_payload |-> <<>>,
     rejected |-> FALSE, payloads |-> <<>>]

\* MainWindow before __init__ has run.
NoSelf ==
    [components |-> <<>>, constructed |-> 0, inflight |-> {},
     win |-> [constructed   |-> FALSE,
              setup_ready   |-> FALSE,
              busy_conda    |-> FALSE,
              current_prefix |-> None,
              tab_home      |-> FALSE,   \* the attribute tab_home is assigned
              visible       |-> FALSE,
              timer_offline |-> FALSE,
              timer_health  |-> FALSE,
              component_timers |-> {},   \* aliases whose timers are running
              fetches       |-> 0,       \* conda_data workers created
              flag_loads    |-> 0,       \* emissions of sig_flags_loaded
              emitted       |-> {},      \* signals the last set_busy_status emitted
              setups        |-> <<>>,    \* the components.setup broadcasts made
              handling      |-> 0,       \* worker whose payload the slot handles
              trace         |-> <<>>,    \* calls made on collaborators, in order
              unknown       |-> {},      \* aliases looked up while not registered
              application_update_version |-> None,
              button_update_available |-> FALSE,   \* the button is visible
              button_update_enabled |-> FALSE,     \* the button is enabled
              dialog_update |-> 0,       \* _dialog_update: 0 for None, or a dialog
              dialogs       |-> 0,       \* DialogUpdateApplication objects created
              exec_stack    |-> <<>>,    \* update dialogs inside exec_, innermost last
              update_calls  |-> 0,       \* calls of update_application
              busy_calls    |-> 0,       \* calls of set_busy_status counted
              processes     |-> {},      \* ongoing conda and download processes
              conda_lock    |-> FALSE,   \* the conda lock is held
              restart_required |-> None, \* None, "False" or "True"
              torn_down     |-> FALSE,   \* workers.teardown() was called
              launched      |-> 0,       \* processes started by restart
              running_processes |-> {},  \* applications started and alive
              closing_calls |-> 0,       \* closing() calls of the last handler
              closing_result |-> None,   \* what the last of them returned
              raised        |-> None]]

(***************************************************************************)
(* RegistrySpec: any sequence of calls on one MainWindowComponents.        *)
(***************************************************************************)

\* Initializers offered to push: three of the window's, one of another
\* class under an alias of theirs, one whose alias is a method name of the
\* registry, one without __alias__ and one with an empty __alias__.
Initializers ==
    { [cls |-> "AccountsComponent",      alias |-> "accounts"],
      [cls |-> "ApplicationsComponent",  alias |-> "applications"],
      [cls |-> "EnvironmentsComponent",  alias |-> "environments"],
      [cls |-> "OtherAccountsComponent", alias |-> "accounts"],
      [cls |-> "SetupComponent",         alias |-> "setup"],
      [cls |-> "NoAliasComponent",       alias |-> None],
      [cls |-> "EmptyAliasComponent",    alias |-> ""] }

Aliases == { c.alias : c \in { d \in Initializers : ~Falsy(d.alias) } }

LookupKeys == Aliases \cup { "whats_new", "get" }

LookupPaths == { "get", "getitem", "getattr" }

lookup(path, content, key) ==
    CASE path = "get"     -> get(content, key)
      [] path = "getitem" -> getitem(content, key)
      [] path = "getattr" -> getattr(content, key)

RegistryInit ==
    /\ components = <<>>
    /\ constructed = 0
    /\ result = Res("none", None)
    /\ watcher = SignalWatcher
    /\ calls = <<>>
    /\ hist = NoHist
    /\ inflight = {}
    /\ win = NoSelf.win
    /\ pool = NoPool
    /\ SASS_VARIABLES = SassVariables

R_push(c) ==
    LET r == push(components, constructed, c) IN
    /\ components' = r.content
    /\ constructed' = r.constructed
    /\ result' = [Res("push", c.alias) EXCEPT !.raised = r.raised]
    /\ hist' = [hist EXCEPT !.rejected = @ \/ r.raised # None]
    /\ UNCHANGED <<watcher, calls, inflight, win, pool, SASS_VARIABLES>>

R_lookup(path, key) ==
    LET r == lookup(path, components, key) IN
    /\ result' = [Res(path, key) EXCEPT !.raised = r.raised, !.value = r.value]
    /\ UNCHANGED <<components, constructed, watcher, calls, hist, inflight, win,
                   pool, SASS_VARIABLES>>

R_broadcast(op, fails) ==
    LET r == broadcast(op, components, fails) IN
    /\ result' = [Res(op, None) EXCEPT !.raised = r.raised,
                                       !.visited = r.visited, !.fails = fails]
    /\ UNCHANGED <<components, constructed, watcher, calls, hist, inflight, win,
                   pool, SASS_VARIABLES>>

RegistryNext ==
    \/ \E c \in Initializers : R_push(c)
    \/ \E path \in LookupPaths, key \in LookupKeys : R_lookup(path, key)
    \/ \E op \in BroadcastOps, fails \in SUBSET Aliases : R_broadcast(op, fails)

RegistrySpec == RegistryInit /\ [][RegistryNext]_vars

(***************************************************************************)
(* WatcherSpec: any sequence of calls on one SignalWatcher.                *)
(***************************************************************************)

Names == { "conda_data_ready", "feature_flags_ready", "other_ready" }

\* Payloads a completion may carry.
Payloads == { <<>>, <<"w1", "out1", "">>, <<"w2", "out2", "err">> }

WatcherInit ==
    /\ components = <<>>
    /\ constructed = 0
    /\ result = Res("none", None)
    /\ watcher = SignalWatcher
    /\ calls = <<>>
    /\ hist = NoHist
    /\ inflight = {}
    /\ win = NoSelf.win
    /\ pool = NoPool
    /\ SASS_VARIABLES = SassVariables

W_register(name) ==
    LET r == register_signal(watcher, name) IN
    /\ watcher' = r.watcher
    /\ result' = [Res("register_signal", name) EXCEPT
                    !.raised = r.raised, !.late = watcher.fired]
    /\ hist' = [hist EXCEPT
                  !.registered = IF r.raised = None THEN @ \cup {name} ELSE @,
                  !.clean = @ /\ hist.delivered = {}]
    /\ UNCHANGED <<components, constructed, calls, inflight, win, pool, SASS_VARIABLES>>

W_signal_received(name, args, propagate) ==
    LET r == signal_received(watcher, name, args, propagate) IN
    /\ watcher' = r.watcher
    /\ calls' = IF r.invoked THEN Append(calls, r.cbargs) ELSE calls
    /\ result' = [Res("signal_received", name) EXCEPT
                    !.invoked = r.invoked, !.late = watcher.fired]
    /\ hist' = [hist EXCEPT
                  !.delivered = @ \cup {name},
                  !.clean = @ /\ name \in hist.registered
                              /\ name \notin hist.delivered,
                  !.stray = @ \/ name \notin hist.registered,
                  !.dup = @ \/ (name \in hist.delivered /\ ~watcher.fired)]
    /\ UNCHANGED <<components, constructed, inflight, win, pool, SASS_VARIABLES>>

WatcherNext ==
    \/ \E name \in Names : W_register(name)
    \/ \E name \in Names, args \in Payloads, propagate \in BOOLEAN :
          W_signal_received(name, args, propagate)

WatcherSpec == WatcherInit /\ [][WatcherNext]_vars

(***************************************************************************)
(* PoolSpec: any pool of at most MaxHandlers handlers, and any sequence of *)
(* solve and only calls on it.                                             *)
(***************************************************************************)

PoolInit ==
    /\ components = <<>>
    /\ constructed = 0
    /\ result = Res("none", None)
    /\ watcher = SignalWatcher
    /\ calls = <<>>
    /\ hist = NoHist
    /\ inflight = {}
    /\ win = NoSelf.win
    /\ pool \in { [NoPool EXCEPT !.handlers = hs] : hs \in HandlerSeqs }
    /\ SASS_VARIABLES = SassVariables

\* pool.solve(context), the context carrying the payload conda_info.
P_solve(conda_info) ==
    LET r == solve(pool.handlers, [conda_info |-> conda_info]) IN
    /\ pool' = [pool EXCEPT !.solved = TRUE,
                            !.conda_info = conda_info,
                            !.returned = r.returned,
                            !.issues = r.issues,
                            !.invoked = r.invoked,
                            !.reads = r.reads,
                            !.outs = r.outs,
                            !.runs = IF @ < MaxRuns THEN @ + 1 ELSE @,
                            !.only_tags = {},
                            !.only_value = <<>>]
    /\ result' = [Res("solve", None) EXCEPT !.raised = r.raised]
    /\ UNCHANGED <<components, constructed, watcher, calls, hist, inflight, win,
                   SASS_VARIABLES>>

\* issues.only(tags=T) on the collection the last solve returned.
P_only(tags) ==
    /\ pool.solved
    /\ pool.returned
    /\ LET r == only(pool.issues, tags) IN
       /\ pool' = [pool EXCEPT !.issues = r.collection,
                               !.only_tags = tags,
                               !.only_value = r.value]
       /\ result' = Res("only", None)
    /\ UNCHANGED <<components, constructed, watcher, calls, hist, inflight, win,
                   SASS_VARIABLES>>

PoolNext ==
    \/ \E conda_info \in { "conda_info", "conda_info_without_default_env" } :
          P_solve(conda_info)
    \/ \E tags \in SUBSET PoolTags : P_only(tags)

PoolSpec == PoolInit /\ [][PoolNext]_vars

(***************************************************************************)
(* Properties of the registry (RegistrySpec)                               *)
(***************************************************************************)

\* C7: registering an initializer whose alias is already present fails with
\* the duplicate-component error (the KeyError of push), constructs no
\* component and leaves the registry as it was: same aliases, same component
\* objects, same order.
C7_DuplicatePushFails ==
    [][\A c \in Initializers :
          (R_push(c) /\ c.alias \in Keys(components))
              => /\ result'.raised = "KeyError"
                 /\ constructed' = constructed
                 /\ components' = components]_vars

\* A duplicate push was rejected on a registry holding several components,
\* by an initializer of another class than the one registered.
C7_Witness ==
    /\ result.op = "push"
    /\ result.raised = "KeyError"
    /\ result.arg = "accounts"
    /\ Len(components) >= 2
    /\ \E i \in 1..Len(components) :
          /\ components[i].alias = "accounts"
          /\ components[i].comp.cls = "OtherAccountsComponent"

\* C8: registering an initializer whose alias is missing or empty fails with
\* the invalid-component error (the ValueError of push) before the
\* initializer is called, and leaves the registry unchanged.
C8_InvalidPushFails ==
    [][\A c \in Initializers :
          (R_push(c) /\ (c.alias = None \/ c.alias = ""))
              => /\ result'.raised = "ValueError"
                 /\ constructed' = constructed
                 /\ components' = components]_vars

\* An initializer with an empty alias was rejected on a non-empty registry.
C8_Witness ==
    /\ result.op = "push"
    /\ result.arg = ""
    /\ result.raised = "ValueError"
    /\ Len(components) >= 1

\* The component registered under `key`, looked up in the registry itself.
Registered(key) ==
    IF key \in Keys(components)
    THEN components[IndexOf(components, key)].comp
    ELSE NoComponent

\* C9 as stated: every lookup path returns the component registered under
\* the alias, and fails for an alias that was never registered; no lookup of
\* an unknown alias returns a null result.  (Stated for the aliases that are
\* not names of the registry class, where attribute access is decided by
\* __getattr__.)
C9_EveryLookupFailsFast ==
    (result.op \in LookupPaths /\ result.arg \notin ClassAttributes) =>
        IF result.arg \in Keys(components)
        THEN result.raised = None /\ result.value = Registered(result.arg)
        ELSE result.raised \in { "KeyError", "AttributeError" }

\* C9 amended: item access returns the registered component and fails with
\* KeyError for an unknown alias; attribute access does the same with
\* AttributeError for every alias that is not a name of the registry class
\* itself (such a name yields the class's attribute, registered or not); the
\* inherited get returns the registered component, and None without raising
\* for an unknown alias.
C9_LookupByPath ==
    /\ result.op = "getitem" =>
          IF result.arg \in Keys(components)
          THEN result.raised = None /\ result.value = Registered(result.arg)
          ELSE result.raised = "KeyError"
    /\ (result.op = "getattr" /\ result.arg \notin ClassAttributes) =>
          IF result.arg \in Keys(components)
          THEN result.raised = None /\ result.value = Registered(result.arg)
          ELSE result.raised = "AttributeError"
    /\ (result.op = "getattr" /\ result.arg \in ClassAttributes) =>
          result.raised = None /\ result.value.cls = "bound method"
    /\ result.op = "get" =>
          /\ result.raised = None
          /\ result.value = Registered(result.arg)

\* Item access failed for an alias that was never registered, on a registry
\* that holds other components.
C9_Witness ==
    /\ result.op = "getitem"
    /\ result.arg \notin Keys(components)
    /\ result.raised = "KeyError"
    /\ Len(components) >= 2

\* The aliases of the components a broadcast visited.
VisitedIds == { result.visited[i].id : i \in 1..Len(result.visited) }

\* C10 as stated: a broadcast applies the operation to every registered
\* component even when it raises for an earlier one.
C10_BroadcastVisitsAll ==
    result.op \in BroadcastOps =>
        \A i \in 1..Len(components) : components[i].comp.id \in VisitedIds

\* C10 amended: a broadcast applies the operation to the components in
\* registration order up to and including the first one for which it
\* raises; that exception leaves the broadcast at once, so no component
\* after it is visited; without a failure every component is visited.
C10_BroadcastStopsAtFirstFailure ==
    result.op \in BroadcastOps =>
        /\ \A i \in 1..Len(components) :
              components[i].comp.id \in VisitedIds
                  <=> \A j \in 1..(i - 1) : components[j].alias \notin result.fails
        /\ result.raised # None
              <=> \E i \in 1..Len(components) : components[i].alias \in result.fails

\* A broadcast raised for the first of three components and skipped the
\* two after it.
C10_Witness ==
    /\ result.op = "setup"
    /\ Len(components) = 3
    /\ components[1].alias \in result.fails
    /\ result.raised = "Exception"
    /\ Len(result.visited) = 1

\* C11: when the operation fails for no component, a broadcast applies it
\* to each registered component exactly once and in the order in which the
\* components were registered (the order of their construction), whatever
\* successful and rejected registrations came before.
C11_BroadcastInRegistrationOrder ==
    (result.op \in BroadcastOps /\ result.fails \cap Keys(components) = {}) =>
        /\ result.raised = None
        /\ Len(result.visited) = Len(components)
        /\ VisitedIds = { components[i].comp.id : i \in 1..Len(components) }
        /\ VisitedIds = 1..constructed
        /\ \A i, j \in 1..Len(result.visited) :
              i < j => result.visited[i].id < result.visited[j].id

\* A broadcast without failure reached three components, registered in a
\* sequence of registrations of which some were rejected.
C11_Witness ==
    /\ result.op = "start_timers"
    /\ result.raised = None
    /\ hist.rejected
    /\ Len(result.visited) = 3
    /\ result.visited[1].cls = "EnvironmentsComponent"
    /\ result.visited[2].cls = "OtherAccountsComponent"
    /\ result.visited[3].cls = "SetupComponent"

(***************************************************************************)
(* Properties of the pool and the collection (PoolSpec)                    *)
(***************************************************************************)

\* Every handler of the pool returns one fixed issue.
AllFixed ==
    \A k \in 1..Len(pool.handlers) : pool.handlers[k].kind = "fixed"

\* The first handler that raises, 0 when none does.
FirstRaising ==
    LET bad == { k \in 1..Len(pool.handlers) : pool.handlers[k].kind = "raises" }
    IN  IF bad = {} THEN 0 ELSE CHOOSE k \in bad : \A j \in bad : k <= j

\* C12: solve on a pool without handlers returns an empty collection; on a
\* pool of N handlers that each return one fixed issue it returns exactly
\* those N issues in handler-registration order, each handler having been
\* invoked exactly once.
C12_SolveCollectsInHandlerOrder ==
    (result.op = "solve" /\ AllFixed) =>
        /\ result.raised = None
        /\ pool.returned
        /\ pool.issues = [k \in 1..Len(pool.handlers) |-> pool.handlers[k].issue]
        /\ pool.invoked = [k \in 1..Len(pool.handlers) |-> k]
        /\ pool.handlers = <<>> => pool.issues = <<>>

\* Three handlers with fixed issues, two of them different, were run.
C12_Witness ==
    /\ result.op = "solve"
    /\ Len(pool.handlers) = 3
    /\ AllFixed
    /\ pool.handlers[1].name = "ssl_solver"
    /\ pool.handlers[2].name = "channels_solver"
    /\ pool.issues[1].kind = "bad_ssl"
    /\ pool.issues[2].kind = "bad_channels"

\* C13: when a handler raises during a pool run, no handler after it is
\* invoked in that run, no collection is returned and the error reaches the
\* caller of solve.
C13_FailingHandlerAbortsRun ==
    (result.op = "solve" /\ FirstRaising # 0) =>
        /\ pool.invoked = [k \in 1..FirstRaising |-> k]
        /\ ~pool.returned
        /\ pool.issues = <<>>
        /\ result.raised = "HandlerError"

\* The second of three handlers raised after the first had found an issue.
C13_Witness ==
    /\ result.op = "solve"
    /\ Len(pool.handlers) = 3
    /\ pool.handlers[1].kind = "fixed"
    /\ FirstRaising = 2
    /\ pool.handlers[3].kind = "fixed"
    /\ pool.invoked = << 1, 2 >>
    /\ result.raised = "HandlerError"

\* The positions, in increasing order, of the issues of a collection whose
\* tag set intersects tags.
RECURSIVE Matching(_, _, _)
Matching(issues, tags, k) ==
    IF k > Len(issues) THEN <<>>
    ELSE IF \E t \in tags : t \in issues[k].tags
         THEN << k >> \o Matching(issues, tags, k + 1)
         ELSE Matching(issues, tags, k + 1)

\* C14: only(tags=T) returns exactly the issues of the collection whose tag
\* set intersects T, in their original relative order, an empty collection
\* when none matches, and leaves the collection it was called on unchanged.
C14_OnlySelectsIntersecting ==
    /\ [](result.op = "only" =>
            LET m == Matching(pool.issues, pool.only_tags, 1) IN
            /\ pool.only_value = [i \in 1..Len(m) |-> pool.issues[m[i]]]
            /\ (m = <<>>) => pool.only_value = <<>>)
    /\ [][result'.op = "only" => pool'.issues = pool.issues]_vars

\* Two tags selected the first and the third of three issues, the second
\* carrying neither.
C14_Witness ==
    /\ result.op = "only"
    /\ pool.only_tags = { "default_env", "conflict" }
    /\ Len(pool.issues) = 3
    /\ pool.issues[2].tags = { "config" }
    /\ pool.only_value = << pool.issues[1], pool.issues[3] >>
    /\ pool.issues[1] # pool.issues[3]

(***************************************************************************)
(* Properties of the watcher (WatcherSpec)                                 *)
(***************************************************************************)

\* Every registered name has been delivered, and there is one.
Covered == hist.registered # {} /\ hist.registered \subseteq hist.delivered

\* C1: when the register calls come first and signal_received then delivers
\* exactly the registered names, each once and in any order (hist.clean),
\* the callback is invoked exactly once, by the delivery of the last
\* outstanding name: never before every name is in, and by the very call
\* that brings the last one.
C1_FiresOnceAtLastName ==
    hist.clean =>
        IF Covered
        THEN /\ Len(calls) = 1
             /\ result.op = "signal_received"
             /\ result.invoked
        ELSE calls = <<>>

\* Three names were registered and delivered, and the callback has run.
C1_Witness ==
    /\ hist.clean
    /\ hist.registered = Names
    /\ hist.delivered = Names
    /\ Len(calls) = 1

\* C2: under any sequence of calls, with deliveries of names never
\* registered and repeated deliveries, the callback is invoked at most once
\* and never while a registered name has not been received.
C2_AtMostOnceAndOnlyWhenComplete ==
    /\ Len(calls) <= 1
    /\ calls # <<>> => hist.registered \subseteq hist.delivered
    /\ result.invoked => watcher.pending = {}

\* The callback has run once in a history with a delivery of an unregistered
\* name and a repeated delivery before completion.
C2_Witness ==
    /\ hist.stray
    /\ hist.dup
    /\ Cardinality(hist.registered) >= 2
    /\ Len(calls) = 1

\* C4: once the watcher has fired, a signal_received call for any name
\* leaves the watcher as it is and does not invoke the callback.
C4_NoOpAfterFired ==
    [][(watcher.fired /\ result'.op = "signal_received")
          => /\ watcher' = watcher
             /\ calls' = calls
             /\ ~result'.invoked]_vars

\* A delivery of a name that was never registered reached a watcher that
\* had already fired and handed a payload to its callback.
C4_Witness ==
    /\ result.op = "signal_received"
    /\ result.late
    /\ result.arg \notin hist.registered
    /\ watcher.fired
    /\ calls = << <<"w1", "out1", "">> >>

\* C5: register_signal on a watcher that has fired fails with
\* WatcherAlreadyFiredError, leaves the pending and received sets unchanged,
\* and no later call invokes the callback a second time.
C5_RegisterAfterFiredFails ==
    /\ [][(watcher.fired /\ result'.op = "register_signal")
             => /\ result'.raised = "WatcherAlreadyFiredError"
                /\ watcher'.pending = watcher.pending
                /\ watcher'.received = watcher.received
                /\ calls' = calls]_vars
    /\ [](Len(calls) <= 1)

\* A register call was refused by a fired watcher.
C5_Witness ==
    /\ result.op = "register_signal"
    /\ result.late
    /\ result.raised = "WatcherAlreadyFiredError"
    /\ Len(calls) = 1

(***************************************************************************)
(* MainWindow                                                              *)
(*                                                                         *)
(* The window lives on the toolkit's single UI thread: a slot or callback  *)
(* runs to its end before the next completion is dispatched, so each       *)
(* handler is one action.  A handler is an operator on `self`, the record  *)
(* [components, constructed, inflight, win]; win.raised names the          *)
(* exception that ended the handler (None: it returned).                   *)
(***************************************************************************)

\* Fetches (conda_data workers) a window issues in the model.
MaxFetches == 3

\* Emissions of sig_flags_loaded by the feature-flag manager in the model.
MaxFlagLoads == 2

\* Environment prefixes: the root, the configured default, another one.
Prefixes == { "root", "default_env", "other_env" }

\* What a conda_data worker may deliver: a payload the conflict pool accepts
\* and one for which it reports the default environment as unusable.
Outputs == { "conda_info", "conda_info_without_default_env" }

Errors == { "", "error" }

\* issue_solvers.CONFLICT_POOL.solve(context): the issues found for a payload.
CONFLICT_POOL_solve(output) ==
    IF output = "conda_info_without_default_env"
    THEN << [tags |-> {"default_env"}] >>
    ELSE <<>>

\* Calls a handler makes on its collaborators are recorded in win.trace, in
\* call order: e names the call, w is the worker whose payload the running
\* slot handles (0 outside such a slot), x a detail of the call.
Log(self, e, x) ==
    [self EXCEPT !.win.trace =
        Append(@, [e |-> e, w |-> self.win.handling, x |-> x])]

Raise(self, exception) ==
    [Log(self, "raise", exception) EXCEPT !.win.raised = exception]

\* self.components.push(initializer), for an initializer of the window.
Push_ReplacesContent(self, cls) ==
    LET c == CHOOSE i \in WindowInitializers : i.cls = cls
        r == push(<<>>, self.constructed, c)
    IN  [self EXCEPT !.components = r.content,
                     !.constructed = r.constructed,
                     !.win.raised = r.raised]

Push(self, cls) ==
    LET c == CHOOSE i \in WindowInitializers : i.cls = cls
        r == push(self.components, self.constructed, c)
    IN  [self EXCEPT !.components = r.content,
                     !.constructed = r.constructed,
                     !.win.raised = r.raised]

\* self.components.<alias>: the registry's attribute access, which raises
\* AttributeError for an alias that is not registered.
Access(self, alias) ==
    IF self.win.raised # None THEN self
    ELSE LET r == getattr(self.components, alias) IN
         IF r.raised # None
         THEN Raise([self EXCEPT !.win.unknown = @ \cup {alias}], r.raised)
         ELSE self

\* MainWindow.stop_timers
MainWindow_stop_timers(self) ==
    [self EXCEPT !.win.timer_offline = FALSE,
                 !.win.component_timers = {}]

\* MainWindow.start_timers
MainWindow_start_timers(self) ==
    [self EXCEPT !.win.timer_offline = TRUE,
                 !.win.timer_health = TRUE,
                 !.win.component_timers = Keys(self.components)]

\* MainWindow.set_busy_status(conda): conda is "True", "False" or another
\* Python value.
set_busy_status(self, conda) ==
    LET s1 == IF conda \in { "True", "False" }
              THEN LET s == [self EXCEPT !.win.busy_conda = (conda = "True")]
                   IN  IF s.win.busy_conda
                       THEN MainWindow_stop_timers(s)
                       ELSE MainWindow_start_timers(s)
              ELSE self
    IN  [s1 EXCEPT !.win.emitted = IF s1.win.busy_conda THEN {}
                                   ELSE { "sig_conda_ready", "sig_ready" }]

\* MainWindow.update_status: `if self.tab_home:` reads an attribute that
\* __init__ only annotates; it exists once setup_tabs has assigned it.
update_status(self) ==
    IF self.win.tab_home THEN self ELSE Raise(self, "AttributeError")

\* MainWindow.reset_conda_data: a new conda_data worker on current_prefix,
\* its completion connected to __reset_conda_data.
reset_conda_data_ThroughWatcher(self) ==
    LET s == update_status(self) IN
    IF s.win.raised # None THEN s
    ELSE [Log(s, "api.conda_data", "conda_data_ready") EXCEPT
            !.win.fetches = @ + 1,
            !.inflight = @ \cup { [worker |-> s.win.fetches + 1,
                                   prefix |-> s.win.current_prefix,
                                   slot   |-> "conda_data_ready"] }]

reset_conda_data(self) ==
    LET s == update_status(self) IN
    IF s.win.raised # None THEN s
    ELSE [Log(s, "api.conda_data", "__reset_conda_data") EXCEPT
            !.win.fetches = @ + 1,
            !.inflight = @ \cup { [worker |-> s.win.fetches + 1,
                                   prefix |-> s.win.current_prefix,
                                   slot   |-> "__reset_conda_data"] }]

\* MainWindow.select_environment(prefix=...)
select_environment(self, prefix) ==
    LET s1 == set_busy_status(Log(self, "select_environment", ""), "True")
        s2 == [s1 EXCEPT !.win.current_prefix = prefix]
    IN  reset_conda_data(s2)

\* self.components.setup(worker, output, error, initial): the broadcast is
\* recorded with its arguments and the components it reached.
components_setup(self, args, initial) ==
    LET r == setup(self.components, {}) IN
    [Log(self, "components.setup", "") EXCEPT !.win.setups =
        Append(@, [args |-> args, initial |-> initial, visited |-> r.visited])]

\* MainWindow.setup_tabs
setup_tabs_SetsUpBeforePush(self) ==
    LET s1 == [Log(self, "setup_tabs", "") EXCEPT !.win.tab_home = TRUE]
        s2 == Access(Log(set_busy_status(s1, "True"), "tab_home.setup", ""),
                     "applications")
        s3 == Access(set_busy_status(s2, "True"), "environments")
    IN  IF s3.win.raised # None THEN s3
        ELSE Push(Log(s3, "environments.tab.setup", ""),
                  "EnvironmentsComponent")

setup_tabs(self) ==
    LET s1 == [Log(self, "setup_tabs", "") EXCEPT !.win.tab_home = TRUE]
        s2 == Access(Log(set_busy_status(s1, "True"), "tab_home.setup", ""),
                     "applications")
        s3 == IF s2.win.raised # None THEN s2
              ELSE Push(s2, "EnvironmentsComponent")
    IN  IF s3.win.raised # None THEN s3
        ELSE Log(Access(set_busy_status(s3, "True"), "environments"),
                 "environments.tab.setup", "")

\* MainWindow.post_visible_setup: the update check on the initial payload,
\* then the login reminder of the accounts component.
post_visible_setup(self) ==
    Access(Log(self, "check_for_updates", ""), "accounts")

\* The outcome of the conflict pool for a payload, as the window reads it:
\* whether an issue tagged default_env was found.
default_env_issue(output) ==
    only(CONFLICT_POOL_solve(output), { "default_env" }).value # <<>>

\* MainWindow.initial_setup(worker, output, error), called as
\* callback(*args) by the watcher.
initial_setup_ShowsBeforeTabs(self, args) ==
    IF Len(args) # 3 THEN Raise(self, "TypeError")
    ELSE
    LET output == args[2]
        s0 == Access(Log([self EXCEPT !.win.handling = args[1]],
                         "initial_setup", ""), "accounts")
        s1 == Log(s0, "CONFLICT_POOL.solve",
                  IF default_env_issue(output) THEN "default_env" ELSE "")
    IN  IF s0.win.raised # None THEN s0
        ELSE IF default_env_issue(output)
        THEN select_environment(s1, "default_env")
        ELSE LET s2 == Log([s1 EXCEPT !.win.setup_ready = TRUE],
                           "setup_ready", "")
                 s3 == Log([s2 EXCEPT !.win.visible = TRUE], "show", "")
                 s4 == setup_tabs(s3)
             IN  IF s4.win.raised # None THEN s4
                 ELSE components_setup(post_visible_setup(s4), args, TRUE)

initial_setup(self, args) ==
    IF Len(args) # 3 THEN Raise(self, "TypeError")
    ELSE
    LET output == args[2]
        s0 == Access(Log([self EXCEPT !.win.handling = args[1]],
                         "initial_setup", ""), "accounts")
        s1 == Log(s0, "CONFLICT_POOL.solve",
                  IF default_env_issue(output) THEN "default_env" ELSE "")
    IN  IF s0.win.raised # None THEN s0
        ELSE IF default_env_issue(output)
        THEN select_environment(s1, "default_env")
        ELSE LET s2 == setup_tabs(s1) IN
             IF s2.win.raised # None THEN s2
             ELSE LET s3 == Log([s2 EXCEPT !.win.setup_ready = TRUE],
                                "setup_ready", "")
                      s4 == Log([s3 EXCEPT !.win.visible = TRUE], "show", "")
                  IN  components_setup(post_visible_setup(s4), args, TRUE)

\* MainWindow.__reset_conda_data(worker, output, error)
reset_conda_data_slot_SetupAsInitial(self, args) ==
    LET output == args[2]
        s0 == Log([self EXCEPT !.win.handling = args[1]],
                  "__reset_conda_data", "")
        s1 == Log(s0, "CONFLICT_POOL.solve",
                  IF default_env_issue(output) THEN "default_env" ELSE "")
    IN  IF default_env_issue(output)
        THEN select_environment(s1, "default_env")
        ELSE IF ~s1.win.tab_home THEN Raise(s1, "AttributeError")
        ELSE components_setup(
                 Log(Log(s1, "tab_home.setup", ""), "check_for_updates", ""),
                 args, TRUE)

reset_conda_data_slot(self, args) ==
    LET output == args[2]
        s0 == Log([self EXCEPT !.win.handling = args[1]],
                  "__reset_conda_data", "")
        s1 == Log(s0, "CONFLICT_POOL.solve",
                  IF default_env_issue(output) THEN "default_env" ELSE "")
    IN  IF default_env_issue(output)
        THEN select_environment(s1, "default_env")
        ELSE IF ~s1.win.tab_home THEN Raise(s1, "AttributeError")
        ELSE components_setup(
                 Log(Log(s1, "tab_home.setup", ""), "check_for_updates", ""),
                 args, FALSE)

\* The slot connected to worker_data.sig_chain_finished in
\* pre_visible_setup: the call it makes on the setup watcher.
conda_data_ready_NoPropagate(w, args) ==
    signal_received(w, "conda_data_ready", args, FALSE)

conda_data_ready(w, args) ==
    signal_received(w, "conda_data_ready", args, TRUE)

\* The slot connected to sig_flags_loaded in pre_visible_setup.
feature_flags_ready(w) ==
    signal_received(w, "feature_flags_ready", <<>>, FALSE)

\* MainWindow.pre_visible_setup: the setup watcher with both names
\* registered, the first conda_data worker in flight and the flags loading.
pre_visible_setup_RegistersDataOnly(self) ==
    LET w1 == register_signal(SignalWatcher, "conda_data_ready").watcher
        s0 == Access(Log(self, "setup_metadata", ""), "accounts")
        s1 == [Log(s0, "api.conda_data", "conda_data_ready") EXCEPT
                 !.win.fetches = @ + 1,
                 !.inflight = @ \cup { [worker |-> self.win.fetches + 1,
                                        prefix |-> self.win.current_prefix,
                                        slot   |-> "conda_data_ready"] }]
    IN  IF s0.win.raised # None THEN [watcher |-> SignalWatcher, self |-> s0]
        ELSE [watcher |-> w1,
              self |-> Log(s1, "FEATURE_FLAGS_MANAGER.load", "")]

pre_visible_setup(self) ==
    LET w1 == register_signal(SignalWatcher, "conda_data_ready").watcher
        s0 == Access(Log(self, "setup_metadata", ""), "accounts")
        s1 == [Log(s0, "api.conda_data", "conda_data_ready") EXCEPT
                 !.win.fetches = @ + 1,
                 !.inflight = @ \cup { [worker |-> self.win.fetches + 1,
                                        prefix |-> self.win.current_prefix,
                                        slot   |-> "conda_data_ready"] }]
        w2 == register_signal(w1, "feature_flags_ready").watcher
    IN  IF s0.win.raised # None THEN [watcher |-> SignalWatcher, self |-> s0]
        ELSE [watcher |-> w2,
              self |-> Log(s1, "FEATURE_FLAGS_MANAGER.load", "")]

\* The configured 'default_anaconda_api_url': None, or the URL of a batch
\* install.
ApiUrls == { None, "https://api.example.org" }

\* MainWindow.set_initial_batch_config: a configured API URL is validated
\* with a blocking request.
set_initial_batch_config(self, default_anaconda_api_url) ==
    IF default_anaconda_api_url # None
    THEN Log(self, "api.download_is_valid_api_url", "")
    ELSE self

\* MainWindow.__init__, with the configured default environment as the
\* current prefix.
MainWindow_init_PoolAfterFetch(self, default_anaconda_api_url) ==
    LET s0 == Log(self, "MainWindow.__init__", "")
        s1 == Push(Push(s0, "NotificationsComponent"), "WhatsNewComponent")
        s2 == [Log(s1, "anaconda_solvers.POOL.solve", "") EXCEPT
                 !.win.current_prefix = "default_env"]
        s4 == Push(Push(s2, "AccountsComponent"), "ApplicationsComponent")
        s5 == set_initial_batch_config(s4, default_anaconda_api_url)
        r  == pre_visible_setup(s5)
        s6 == Log(r.self, "CONFIGURATION_POOL.solve", "")
    IN  [watcher |-> r.watcher,
         self |-> [s6 EXCEPT !.win.constructed = TRUE]]

MainWindow_init(self, default_anaconda_api_url) ==
    LET s0 == Log(self, "MainWindow.__init__", "")
        s1 == Push(Push(s0, "NotificationsComponent"), "WhatsNewComponent")
        s2 == [Log(s1, "anaconda_solvers.POOL.solve", "") EXCEPT
                 !.win.current_prefix = "default_env"]
        s3 == Log(s2, "CONFIGURATION_POOL.solve", "")
        s4 == Push(Push(s3, "AccountsComponent"), "ApplicationsComponent")
        s5 == set_initial_batch_config(s4, default_anaconda_api_url)
        r  == pre_visible_setup(s5)
    IN  [watcher |-> r.watcher,
         self |-> [r.self EXCEPT !.win.constructed = TRUE]]

(***************************************************************************)
(* Spec: the window.                                                       *)
(***************************************************************************)

Self == [components |-> components, constructed |-> constructed,
         inflight |-> inflight, win |-> win]

\* The handler has run: its exception, if any, is left in win.raised.
Becomes(self) ==
    /\ components' = self.components
    /\ constructed' = self.constructed
    /\ inflight' = self.inflight
    /\ win' = self.win

\* Self at the start of a handler: no exception pending.
Entry == [Self EXCEPT !.win.raised = None, !.win.handling = 0]

Init ==
    /\ components = NoSelf.components
    /\ constructed = NoSelf.constructed
    /\ inflight = NoSelf.inflight
    /\ win = NoSelf.win
    /\ result = Res("none", None)
    /\ watcher = SignalWatcher
    /\ calls = <<>>
    /\ hist = NoHist
    /\ pool = NoPool
    /\ SASS_VARIABLES = SassVariables

\* MainWindow(...) is constructed.
Construct(default_anaconda_api_url) ==
    /\ ~win.constructed
    /\ LET r == MainWindow_init(Entry, default_anaconda_api_url) IN
       /\ watcher' = r.watcher
       /\ Becomes(r.self)
       /\ hist' = [hist EXCEPT !.registered = r.watcher.pending]
    /\ result' = Res("MainWindow", None)
    /\ UNCHANGED <<calls, pool, SASS_VARIABLES>>

\* What a delivery to the setup watcher leaves behind: the callback, when
\* the watcher invokes it, runs inside the slot.
Delivered(name, r, self, payload) ==
    /\ watcher' = r.watcher
    /\ calls' = IF r.invoked THEN Append(calls, r.cbargs) ELSE calls
    /\ UNCHANGED <<pool, SASS_VARIABLES>>
    /\ Becomes(IF r.invoked THEN initial_setup(self, r.cbargs) ELSE self)
    /\ result' = [Res("signal_received", name) EXCEPT
                    !.invoked = r.invoked, !.late = watcher.fired]
    /\ hist' = [hist EXCEPT
                  !.delivered = @ \cup {name},
                  !.order = Append(@, name),
                  !.firedAt = IF r.invoked THEN Append(@, Len(hist.order) + 1)
                              ELSE @,
                  !.data_payload = IF name = "conda_data_ready"
                                   THEN payload ELSE @,
                  !.payloads = IF name = "conda_data_ready"
                               THEN Append(@, payload) ELSE @]

\* The first conda_data worker finishes: sig_chain_finished(worker, output,
\* error) reaches the slot of pre_visible_setup.
CondaDataReady(c, output, error) ==
    /\ c.slot = "conda_data_ready"
    /\ LET payload == <<c.worker, output, error>>
           self == [Entry EXCEPT !.inflight = @ \ {c}]
       IN  Delivered("conda_data_ready", conda_data_ready(watcher, payload),
                     self, payload)

\* The feature-flag manager emits sig_flags_loaded: after the load started
\* by pre_visible_setup, and after any later load.
FeatureFlagsReady ==
    /\ win.constructed
    /\ win.flag_loads < MaxFlagLoads
    /\ LET self == [Entry EXCEPT !.win.flag_loads = @ + 1]
       IN  Delivered("feature_flags_ready", feature_flags_ready(watcher),
                     self, <<>>)

\* A later conda_data worker finishes: its completion reaches
\* __reset_conda_data.  (A payload that makes the window fetch again is
\* delivered only while the model's fetch budget lasts.)
ResetCondaData(c, output, error) ==
    /\ c.slot = "__reset_conda_data"
    /\ default_env_issue(output) => win.fetches < MaxFetches
    /\ Becomes(reset_conda_data_slot([Entry EXCEPT !.inflight = @ \ {c}],
                                     <<c.worker, output, error>>))
    /\ result' = Res("__reset_conda_data", None)
    /\ hist' = [hist EXCEPT !.payloads = Append(@, <<c.worker, output, error>>)]
    /\ UNCHANGED <<watcher, calls, pool, SASS_VARIABLES>>

\* The user picks an environment on the home tab (sig_item_selected).
SelectEnvironment(prefix) ==
    /\ win.tab_home
    /\ win.fetches < MaxFetches
    /\ Becomes(select_environment(Entry, prefix))
    /\ result' = Res("select_environment", prefix)
    /\ UNCHANGED <<watcher, calls, hist, pool, SASS_VARIABLES>>

Next ==
    \/ \E default_anaconda_api_url \in ApiUrls :
          Construct(default_anaconda_api_url)
    \/ \E c \in inflight, output \in Outputs, error \in Errors :
          CondaDataReady(c, output, error)
    \/ FeatureFlagsReady
    \/ \E c \in inflight, output \in Outputs, error \in Errors :
          ResetCondaData(c, output, error)
    \/ \E prefix \in Prefixes : SelectEnvironment(prefix)

Spec == Init /\ [][Next]_vars

(***************************************************************************)
(* Properties of the window's setup watcher (Spec)                         *)
(***************************************************************************)

SetupNames == { "conda_data_ready", "feature_flags_ready" }

\* Both completions have been delivered to the setup watcher.
BothDelivered == SetupNames \subseteq hist.delivered

\* The position, in the order of delivery, of the delivery that brought the
\* last outstanding name.
CompletionIndex ==
    CHOOSE i \in 1..Len(hist.order) :
        /\ SetupNames \subseteq { hist.order[j] : j \in 1..i }
        /\ ~(SetupNames \subseteq { hist.order[j] : j \in 1..(i - 1) })

\* C3: the data completion and the flags completion are outstanding
\* together and their slots run in either order; in every interleaving
\* exactly one delivery finds the pending set empty and invokes the
\* callback, and it is the one that brings the last outstanding name:
\* never both, never neither.
C3_ExactlyOneDeliveryFires ==
    IF BothDelivered
    THEN /\ hist.firedAt = << CompletionIndex >>
         /\ watcher.pending = {}
         /\ watcher.fired
    ELSE /\ hist.firedAt = <<>>
         /\ ~watcher.fired
         /\ win.constructed => watcher.pending # {}

\* The data completion was delivered first and the flags completion, which
\* came second, fired.
C3_Witness ==
    /\ hist.order = << "conda_data_ready", "feature_flags_ready" >>
    /\ hist.firedAt = << 2 >>
    /\ result.arg = "feature_flags_ready"
    /\ result.invoked

\* C6: with both names registered, the callback runs once, at the delivery
\* that completes the pair, and receives the (worker, output, error) that
\* came with the data signal, whichever of the two signals arrives last.
C6_CallbackGetsDataPayload ==
    IF BothDelivered
    THEN /\ Len(calls) = 1
         /\ Len(calls[1]) = 3
         /\ calls[1] = hist.data_payload
         /\ hist.firedAt = << CompletionIndex >>
         /\ result.invoked => win.raised # "TypeError"
    ELSE calls = <<>>

\* The flags came first, the data second, and initial_setup received the
\* payload of a worker that reported an error.
C6_Witness ==
    /\ hist.order = << "feature_flags_ready", "conda_data_ready" >>
    /\ calls = << <<1, "conda_info", "error">> >>
    /\ win.setup_ready
    /\ win.visible

(***************************************************************************)
(* Properties of the window's start-up and refreshes (Spec)                *)
(***************************************************************************)

\* The positions in win.trace of the calls named e.
Idx(e) == { i \in 1..Len(win.trace) : win.trace[i].e = e }

\* The positions of the conflict-pool runs that found / did not find an
\* issue tagged default_env.
Conflicts == { i \in Idx("CONFLICT_POOL.solve") : win.trace[i].x = "default_env" }

Stable == { i \in Idx("CONFLICT_POOL.solve") : win.trace[i].x = "" }

\* The calls of the normal setup of a payload.
NormalSetup ==
    { "setup_tabs", "tab_home.setup", "environments.tab.setup",
      "check_for_updates", "components.setup" }

\* The call e was made after position i while the payload of trace[i] was
\* being handled.
Later(i, e) ==
    \E j \in Idx(e) : i < j /\ win.trace[j].w = win.trace[i].w

\* The conflict-pool run at position i was made by initial_setup.
Initial(i) ==
    \E k \in Idx("initial_setup") : k < i /\ win.trace[k].w = win.trace[i].w

\* C15 as stated: for every payload in which the conflict pool finds a
\* default_env issue, the initial one and every refresh, the window
\* re-selects the default environment, which issues a fresh data fetch, and
\* does none of the normal setup for that payload.
C15_ConflictReselectsAndRefetches ==
    \A i \in Conflicts :
        /\ Later(i, "select_environment")
        /\ Later(i, "api.conda_data")
        /\ \A j \in 1..Len(win.trace) :
              win.trace[j].w = win.trace[i].w => win.trace[j].e \notin NormalSetup

\* The initial payload had a default_env issue: select_environment was
\* entered and ended with AttributeError before any worker was created.
C15_Witness ==
    /\ \E i \in Conflicts : Initial(i) /\ Later(i, "select_environment")
    /\ win.raised = "AttributeError"
    /\ win.fetches = 1
    /\ inflight = {}

\* The payload delivered by worker w.
PayloadOf(w) ==
    hist.payloads[CHOOSE k \in 1..Len(hist.payloads) : hist.payloads[k][1] = w]

C17_StartupOrder ==
    /\ \A f \in Idx("api.conda_data") : \E c \in Idx("MainWindow.__init__") : c < f
    /\ \A k \in Idx("initial_setup") :
          \E f \in Idx("api.conda_data") :
              f < k /\ win.trace[f].x = "conda_data_ready"
    /\ \A i \in Idx("CONFLICT_POOL.solve") :
          \E k \in Idx("initial_setup") \cup Idx("__reset_conda_data") : k < i
    /\ Cardinality(Idx("setup_tabs")) <= 1
    /\ \A t \in Idx("setup_tabs") :
          \E s \in Stable :
              s < t /\ Initial(s) /\ win.trace[s].w = win.trace[t].w
    /\ \A v \in Idx("show") \cup Idx("setup_ready") :
          \E t \in Idx("environments.tab.setup") : t < v
    /\ win.tab_home <=> Idx("setup_tabs") # {}
    /\ win.visible <=> Idx("show") # {}
    /\ win.setup_ready <=> Idx("setup_ready") # {}
    /\ win.visible => win.tab_home
    /\ win.setup_ready => win.tab_home
    /\ win.tab_home => watcher.fired
    /\ watcher.fired => win.constructed

\* The window is visible and ready after the whole sequence: construction,
\* first fetch, initial_setup, a conflict-pool run without issue, tabs,
\* show.
C17_Witness ==
    /\ win.visible
    /\ win.setup_ready
    /\ win.tab_home
    /\ \E c \in Idx("MainWindow.__init__"), f \in Idx("api.conda_data"),
          k \in Idx("initial_setup"), s \in Stable,
          t \in Idx("setup_tabs"), v \in Idx("show") :
          c < f /\ f < k /\ k < s /\ s < t /\ t < v

\* C18: the wait for the initial data is entered once, by the construction,
\* and left only when the setup watcher fires: initial_setup is invoked at
\* most once, with both completions delivered, and only the first worker is
\* connected to the watcher; every later worker is connected to
\* __reset_conda_data, which handles its payload.
C18_InitialSetupAtMostOnce ==
    /\ Len(calls) <= 1
    /\ Cardinality(Idx("initial_setup")) <= 1
    /\ calls # <<>> => (watcher.fired /\ BothDelivered)
    /\ ~watcher.fired => Idx("CONFLICT_POOL.solve") = {}
    /\ win.constructed =>
          Cardinality({ f \in Idx("api.conda_data") :
                           win.trace[f].x = "conda_data_ready" }) = 1
    /\ \A f, g \in Idx("api.conda_data") :
          win.trace[f].x = "conda_data_ready" => f <= g
    /\ \A c \in inflight : c.slot = "conda_data_ready" <=> c.worker = 1
    /\ \A k \in 1..Len(hist.payloads) :
          LET w == hist.payloads[k][1] IN
          w # 1 => /\ \E j \in Idx("__reset_conda_data") : win.trace[j].w = w
                   /\ \A j \in Idx("initial_setup") : win.trace[j].w # w

\* After initial_setup had run once, two later payloads were handled by
\* __reset_conda_data.
C18_Witness ==
    /\ Len(calls) = 1
    /\ Cardinality(Idx("initial_setup")) = 1
    /\ Cardinality(Idx("__reset_conda_data")) = 2
    /\ Len(hist.payloads) = 3

\* C19 as stated, in its finite form: when the conflict-pool run of
\* initial_setup finds a default_env issue, the window issues a fresh data
\* fetch and no handler fails, and once a later payload has passed the
\* conflict pool without issue the tabs are built, the window is shown and
\* setup_ready is true.
C19_ReselectingLeadsToVisible ==
    \A i \in Conflicts :
        Initial(i) =>
            /\ Later(i, "api.conda_data")
            /\ Idx("raise") = {}
            /\ (\E s \in Stable : i < s) =>
                  (win.tab_home /\ win.visible /\ win.setup_ready)

\* Start-up ended in the corrective branch of initial_setup: the handler
\* raised, no completion is outstanding and the window is neither built nor
\* shown.
C19_Witness ==
    /\ \E i \in Conflicts : Initial(i)
    /\ Idx("raise") # {}
    /\ Cardinality(Idx("api.conda_data")) = 1
    /\ ~win.tab_home
    /\ ~win.visible
    /\ ~win.setup_ready
    /\ win.flag_loads = MaxFlagLoads

\* Calls that issue a network request.
NetworkRequests ==
    { "api.download_is_valid_api_url", "api.conda_data",
      "FEATURE_FLAGS_MANAGER.load" }

\* C20: the configuration pool runs exactly once per window, during the
\* construction, before the first data fetch and before any other network
\* request, and never again when data is refreshed.
C20_ConfigurationPoolOnceBeforeRequests ==
    /\ ~win.constructed => Idx("CONFIGURATION_POOL.solve") = {}
    /\ win.constructed =>
          /\ Cardinality(Idx("CONFIGURATION_POOL.solve")) = 1
          /\ \A p \in Idx("CONFIGURATION_POOL.solve") :
                /\ win.trace[p].w = 0
                /\ \E c \in Idx("MainWindow.__init__") : c < p
                /\ \E l \in Idx("FEATURE_FLAGS_MANAGER.load") : p < l
                /\ \A n \in 1..Len(win.trace) :
                      win.trace[n].e \in NetworkRequests => p < n

\* A window constructed with a batch API URL has validated the URL, fetched
\* and refreshed its data twice.
C20_Witness ==
    /\ Idx("api.download_is_valid_api_url") # {}
    /\ Cardinality(Idx("api.conda_data")) = 3
    /\ Cardinality(Idx("__reset_conda_data")) = 2
    /\ Cardinality(Idx("CONFIGURATION_POOL.solve")) = 1

(***************************************************************************)
(* MainWindow: the completion of a conda action (_conda_output_ready).     *)
(*   worker  [action, prefix, old_prefix]; "absent" stands for an          *)
(*           attribute the worker does not have                            *)
(*   output  [dict, error, exception_type, exception_name, success]:       *)
(*           dict is FALSE for an output that is not a dict; a key the     *)
(*           dict lacks has the default of output.get (success: "True")    *)
(*   error   None, "" or a text                                            *)
(***************************************************************************)

ROOT_PREFIX == "root"

\* constants.ACTION_*: import, remove an environment, any other action.
Actions == { "ACTION_IMPORT", "ACTION_REMOVE_ENV", "ACTION_INSTALL" }

\* An error text that names the default channel, and one that does not.
TosText == "Terms of Service have not been accepted for pkgs/main"

tos_exceptions == { "CondaToSNonInteractiveError", "CondaToSRejectedError" }

NoOutput ==
    [dict |-> TRUE, error |-> "", exception_type |-> "",
     exception_name |-> "", success |-> "True"]

CondaOutputs ==
    { NoOutput,
      [NoOutput EXCEPT !.dict = FALSE, !.error = "not read"],
      [NoOutput EXCEPT !.error = "PackagesNotFoundError: numpy"],
      [NoOutput EXCEPT !.exception_type = "CondaError"],
      [NoOutput EXCEPT !.exception_name = "CondaToSRejectedError",
                       !.error = TosText],
      [NoOutput EXCEPT !.exception_name = "CondaToSRejectedError",
                       !.error = "rejected"],
      [NoOutput EXCEPT !.success = "False"] }

CondaErrors == { None, "", "conda exited with 1" }

\* The workers of conda actions: an import always names the prefix it
\* creates.
Workers ==
    { w \in [action : Actions,
             prefix : { "absent", "other_env", "gone_env" },
             old_prefix : { "absent", "default_env", "gone_env" }] :
        w.action = "ACTION_IMPORT" => w.prefix # "absent" }

\* api.conda_environment_exists(prefix) and os.path.isdir(prefix): the
\* environments of Prefixes exist.
conda_environment_exists(prefix) == prefix \in Prefixes

\* Truth value of an optional string.
Truthy(text) == text # None /\ text # ""

\* MainWindow._conda_output_ready(worker, output, error)
conda_output_ready_IgnoresError(self, worker, output, error) ==
    LET s0 == set_busy_status(Log(self, "_conda_output_ready", ""), "False")
        out == IF output.dict THEN output ELSE NoOutput
        success == IF worker.action = "ACTION_IMPORT"
                   THEN conda_environment_exists(worker.prefix)
                   ELSE out.success = "True"
        is_error == Truthy(out.error) \/ Truthy(out.exception_type)
                       \/ Truthy(out.exception_name)
        old_prefix == IF worker.old_prefix = "absent" THEN None
                      ELSE worker.old_prefix
        prefix == IF worker.prefix = "absent" THEN old_prefix ELSE worker.prefix
        current == IF Truthy(prefix) /\ conda_environment_exists(prefix)
                   THEN prefix
                   ELSE IF Truthy(old_prefix)
                           /\ conda_environment_exists(old_prefix)
                   THEN old_prefix
                   ELSE ROOT_PREFIX
        s1 == [s0 EXCEPT !.win.current_prefix = current]
    IN  IF is_error \/ ~success
        THEN LET s2 == Log(s1, "logger.error", "")
                 s3 == IF out.exception_name \in tos_exceptions
                          /\ out.error = TosText
                       THEN Log(s2, "show_terms_of_service", "")
                       ELSE Log(s2, "show_error_message", "")
             IN  select_environment(s3, current)
        ELSE IF worker.action = "ACTION_REMOVE_ENV"
        THEN select_environment(s1, ROOT_PREFIX)
        ELSE select_environment(s1, current)

conda_output_ready_TrustsWorkerPrefix(self, worker, output, error) ==
    LET s0 == set_busy_status(Log(self, "_conda_output_ready", ""), "False")
        out == IF output.dict THEN output ELSE NoOutput
        success == IF worker.action = "ACTION_IMPORT"
                   THEN conda_environment_exists(worker.prefix)
                   ELSE out.success = "True"
        is_error == Truthy(out.error) \/ Truthy(out.exception_type)
                       \/ Truthy(out.exception_name)
        old_prefix == IF worker.old_prefix = "absent" THEN None
                      ELSE worker.old_prefix
        prefix == IF worker.prefix = "absent" THEN old_prefix ELSE worker.prefix
        current == IF Truthy(prefix) THEN prefix
                   ELSE IF Truthy(old_prefix) THEN old_prefix
                   ELSE ROOT_PREFIX
        s1 == [s0 EXCEPT !.win.current_prefix = current]
    IN  IF is_error \/ Truthy(error) \/ ~success
        THEN LET s2 == Log(s1, "logger.error", "")
                 s3 == IF out.exception_name \in tos_exceptions
                          /\ out.error = TosText
                       THEN Log(s2, "show_terms_of_service", "")
                       ELSE Log(s2, "show_error_message", "")
             IN  select_environment(s3, current)
        ELSE IF worker.action = "ACTION_REMOVE_ENV"
        THEN select_environment(s1, ROOT_PREFIX)
        ELSE select_environment(s1, current)

conda_output_ready(self, worker, output, error) ==
    LET s0 == set_busy_status(Log(self, "_conda_output_ready", ""), "False")
        out == IF output.dict THEN output ELSE NoOutput
        success == IF worker.action = "ACTION_IMPORT"
                   THEN conda_environment_exists(worker.prefix)
                   ELSE out.success = "True"
        is_error == Truthy(out.error) \/ Truthy(out.exception_type)
                       \/ Truthy(out.exception_name)
        old_prefix == IF worker.old_prefix = "absent" THEN None
                      ELSE worker.old_prefix
        prefix == IF worker.prefix = "absent" THEN old_prefix ELSE worker.prefix
        current == IF Truthy(prefix) /\ conda_environment_exists(prefix)
                   THEN prefix
                   ELSE IF Truthy(old_prefix)
                           /\ conda_environment_exists(old_prefix)
                   THEN old_prefix
                   ELSE ROOT_PREFIX
        s1 == [s0 EXCEPT !.win.current_prefix = current]
    IN  IF is_error \/ Truthy(error) \/ ~success
        THEN LET s2 == Log(s1, "logger.error", "")
                 s3 == IF out.exception_name \in tos_exceptions
                          /\ out.error = TosText
                       THEN Log(s2, "show_terms_of_service", "")
                       ELSE Log(s2, "show_error_message", "")
             IN  select_environment(s3, current)
        ELSE IF worker.action = "ACTION_REMOVE_ENV"
        THEN select_environment(s1, ROOT_PREFIX)
        ELSE select_environment(s1, current)

(***************************************************************************)
(* OutputSpec: _conda_output_ready applied once to a window whose tabs are *)
(* built, for every worker, output and error.                              *)
(***************************************************************************)

\* The window after a start-up on a payload without issue.
ReadyWindow ==
    initial_setup(MainWindow_init(NoSelf, None).self, <<1, "conda_info", "">>)

\* The same window after the user picked an environment and its data came.
RefreshedWindow(prefix) ==
    LET s == select_environment(ReadyWindow, prefix) IN
    reset_conda_data_slot([s EXCEPT !.inflight = {}], <<2, "conda_info", "">>)

BaseWindows == { ReadyWindow } \cup { RefreshedWindow(p) : p \in Prefixes }

\* The watcher of a window that has started up.
FiredWatcher ==
    conda_data_ready(
        feature_flags_ready(MainWindow_init(NoSelf, None).watcher).watcher,
        <<1, "conda_info", "">>).watcher

OutputInit ==
    /\ \E self \in BaseWindows :
          /\ components = self.components
          /\ constructed = self.constructed
          /\ inflight = self.inflight
          /\ win = self.win
    /\ \E worker \in Workers, output \in CondaOutputs, error \in CondaErrors :
          result = Res("_conda_output_ready",
                       [worker |-> worker, output |-> output, error |-> error])
    /\ watcher = FiredWatcher
    /\ calls = << <<1, "conda_info", "">> >>
    /\ hist = NoHist
    /\ pool = NoPool
    /\ SASS_VARIABLES = SassVariables

\* The completion in result.arg is delivered to _conda_output_ready.
O_conda_output_ready ==
    /\ ~result.invoked
    /\ Becomes(conda_output_ready(Entry, result.arg.worker, result.arg.output,
                                  result.arg.error))
    /\ result' = [result EXCEPT !.invoked = TRUE]
    /\ UNCHANGED <<watcher, calls, hist, pool, SASS_VARIABLES>>

OutputNext == O_conda_output_ready

OutputSpec == OutputInit /\ [][OutputNext]_vars

(***************************************************************************)
(* Properties of _conda_output_ready (OutputSpec)                          *)
(***************************************************************************)

\* The completion handled, and what the handler did: the calls it logged.
Handled == result.op = "_conda_output_ready" /\ result.invoked

OwnCalls(e) ==
    { i \in Idx(e) : \E k \in Idx("_conda_output_ready") : k < i }

FailureBranch == OwnCalls("logger.error") # {}

NoDialog ==
    OwnCalls("show_error_message") = {} /\ OwnCalls("show_terms_of_service") = {}

\* The output as the handler reads it.
ReadOutput == IF result.arg.output.dict THEN result.arg.output ELSE NoOutput

CleanOutput ==
    /\ ~Truthy(ReadOutput.error)
    /\ ~Truthy(ReadOutput.exception_type)
    /\ ~Truthy(ReadOutput.exception_name)

\* Both branches end by re-selecting an environment: select_environment is
\* entered and the data of the selected prefix is fetched.
Reselects ==
    /\ OwnCalls("select_environment") # {}
    /\ OwnCalls("api.conda_data") # {}
    /\ win.raised = None
    /\ \E c \in inflight : c.worker = win.fetches /\ c.prefix = win.current_prefix

\* C21 as stated: the success branch (no error or terms-of-service dialog)
\* is taken for a completion whose error is empty or None, whose output
\* carries no error text or exception fields and whose success flag is not
\* false; the failure branch for every completion with a non-empty error;
\* both branches end by re-selecting an environment.
C21_BranchByPayload ==
    Handled =>
        /\ (~Truthy(result.arg.error) /\ CleanOutput
               /\ ReadOutput.success # "False")
              => (~FailureBranch /\ NoDialog)
        /\ Truthy(result.arg.error) => FailureBranch
        /\ Reselects

\* C21 amended: the failure branch is taken exactly when the error is
\* non-empty, or the output carries an error text or an exception field, or
\* the action did not succeed, where success is the output's success flag
\* (true when absent) except for an import, for which it is whether the
\* worker's prefix exists as a directory; the failure branch shows the
\* terms-of-service dialog or the error message, the success branch shows
\* neither, and both end by re-selecting an environment.
C21_BranchByPayloadAndAction ==
    Handled =>
        LET success == IF result.arg.worker.action = "ACTION_IMPORT"
                       THEN result.arg.worker.prefix \in Prefixes
                       ELSE ReadOutput.success # "False"
        IN  /\ FailureBranch <=>
                  (Truthy(result.arg.error) \/ ~CleanOutput \/ ~success)
            /\ FailureBranch <=> ~NoDialog
            /\ Reselects

\* An import whose prefix was not created: the completion carries no error
\* and a clean output, and the failure branch was taken.
C21_Witness ==
    /\ Handled
    /\ result.arg.worker.action = "ACTION_IMPORT"
    /\ result.arg.worker.prefix = "gone_env"
    /\ ~Truthy(result.arg.error)
    /\ CleanOutput
    /\ FailureBranch
    /\ OwnCalls("show_error_message") # {}
    /\ Reselects

(***************************************************************************)
(* SessionSpec: the window's start-up and refreshes as in Spec, and what    *)
(* happens once the window is in use: completions of conda actions (each   *)
(* re-selects an environment), the health timer's callback and the menu    *)
(* actions that read a component.  (The offline timer is stopped again     *)
(* before any handler that started it returns.)                            *)
(***************************************************************************)

\* MainWindow.show_api_health_label(healthy), the slot of api.sig_api_health
\* (connected by initial_setup); team_edition is the brand of the logged-in
\* account.
show_api_health_label(self, healthy, team_edition) ==
    LET s0 == IF healthy THEN Access(self, "accounts") ELSE self
        s1 == IF s0.win.raised # None \/ s0.win.tab_home THEN s0
              ELSE Raise(s0, "AttributeError")
        s2 == Access(s1, "environments")
    IN  IF healthy THEN s2 ELSE Access(s2, "accounts")

\* The menu actions that read a component: show_preferences and
\* show_whats_new.
MenuActions == { "show_preferences", "show_whats_new" }

menu_action(self, action) ==
    IF action = "show_preferences"
    THEN Access(Access(self, "environments"), "accounts")
    ELSE Access(self, "whats_new")

\* The completions of conda actions a session delivers: an installation
\* that succeeded and one that failed.
SessionCompletions ==
    { [worker |-> [action |-> "ACTION_INSTALL", prefix |-> "other_env",
                   old_prefix |-> "absent"],
       output |-> NoOutput, error |-> None],
      [worker |-> [action |-> "ACTION_INSTALL", prefix |-> "other_env",
                   old_prefix |-> "absent"],
       output |-> [NoOutput EXCEPT !.error = "PackagesNotFoundError: numpy"],
       error |-> "conda exited with 1"] }

\* A conda action started from the visible window completes.
CondaOutputReady(c) ==
    /\ win.visible
    /\ win.fetches < MaxFetches
    /\ Becomes(conda_output_ready(Entry, c.worker, c.output, c.error))
    /\ result' = [Res("_conda_output_ready", None) EXCEPT !.invoked = TRUE]
    /\ UNCHANGED <<watcher, calls, hist, pool, SASS_VARIABLES>>

\* The health-check timer fires: api.health_check emits sig_api_health.
ApiHealth(healthy, team_edition) ==
    /\ win.timer_health
    /\ Idx("initial_setup") # {}
    /\ Becomes(show_api_health_label(Entry, healthy, team_edition))
    /\ result' = Res("show_api_health_label", None)
    /\ UNCHANGED <<watcher, calls, hist, pool, SASS_VARIABLES>>

\* The user picks a menu action of the visible window.
MenuAction(action) ==
    /\ win.visible
    /\ Becomes(menu_action(Entry, action))
    /\ UNCHANGED <<result, watcher, calls, hist, pool, SASS_VARIABLES>>

SessionNext ==
    \/ \E default_anaconda_api_url \in ApiUrls :
          Construct(default_anaconda_api_url)
    \/ \E c \in inflight, output \in Outputs, error \in Errors :
          CondaDataReady(c, output, error)
    \/ FeatureFlagsReady
    \/ \E c \in inflight, output \in Outputs, error \in Errors :
          ResetCondaData(c, output, error)
    \/ \E c \in SessionCompletions : CondaOutputReady(c)
    \/ \E healthy \in BOOLEAN, team_edition \in BOOLEAN :
          ApiHealth(healthy, team_edition)
    \/ \E action \in MenuActions : MenuAction(action)

SessionSpec == Init /\ [][SessionNext]_vars

(***************************************************************************)
(* Properties of the component accesses (SessionSpec)                      *)
(***************************************************************************)

AllAliases == { i.alias : i \in WindowInitializers }

\* C22: every access to a component by alias happens after the component was
\* registered (no start-up step, slot, timer callback or menu action looks
\* up an alias the registry does not hold), and the broadcasts that a
\* component is meant to receive are made after its registration: every
\* components.setup broadcast visits all five components, and whenever
\* component timers run they run for all five.
C22_AccessAfterRegistration ==
    /\ win.unknown = {}
    /\ \A i \in DOMAIN win.setups :
          { c.cls : c \in { win.setups[i].visited[j] :
                              j \in DOMAIN win.setups[i].visited } }
             = { i2.cls : i2 \in WindowInitializers }
    /\ win.component_timers # {} => win.component_timers = AllAliases

\* The health timer's callback has read the environments component, the
\* last one registered, after start-up and a conda action.
C22_Witness ==
    /\ result.op = "show_api_health_label"
    /\ win.timer_health
    /\ Keys(components) = AllAliases
    /\ win.unknown = {}
    /\ win.setups # <<>>

(***************************************************************************)
(* Properties of the start-up barrier (Spec)                               *)
(***************************************************************************)

\* C23: pre_visible_setup registers both names on the setup watcher before
\* either completion is delivered to it: every delivery finds both names
\* registered, so initial_setup never runs before the feature flags have
\* been loaded, whichever completion arrives first; a data completion that
\* arrives before the flags leaves initial_setup waiting.
C23_BothRegisteredBeforeDelivery ==
    /\ win.constructed => hist.registered = SetupNames
    /\ hist.order # <<>> => win.constructed /\ hist.registered = SetupNames
    /\ Idx("initial_setup") # {} =>
          /\ "feature_flags_ready" \in hist.delivered
          /\ win.flag_loads >= 1
    /\ (hist.order # <<>> /\ "feature_flags_ready" \notin hist.delivered) =>
          /\ Idx("initial_setup") = {}
          /\ calls = <<>>
          /\ "feature_flags_ready" \in watcher.pending

\* The data fetch completed before the flags were loaded; initial_setup ran
\* at the flags' delivery.
C23_Witness ==
    /\ Len(hist.order) >= 2
    /\ hist.order[1] = "conda_data_ready"
    /\ win.flag_loads = 1
    /\ Cardinality(Idx("initial_setup")) = 1
    /\ Len(calls) = 1

(***************************************************************************)
(* Properties of overlapping fetches (Spec)                                *)
(***************************************************************************)

\* The deliveries to __reset_conda_data of a completion that is late: by
\* the time it is handled a newer fetch has been issued (workers are
\* numbered in the order of their creation).
LateDeliveries ==
    { i \in Idx("__reset_conda_data") :
        Cardinality({ f \in Idx("api.conda_data") : f < i }) > win.trace[i].w }

\* What the slot that started at position i of the trace went on to do.
SlotCalls(i) ==
    { win.trace[j].e : j \in { k \in (i + 1)..Len(win.trace) :
                                 win.trace[k].w = win.trace[i].w } }

\* C24: when the environment is re-selected while an earlier fetch is still
\* in flight, the late completion of the earlier fetch is discarded: its
\* payload is not applied to the tabs or the components and it triggers no
\* re-selection.
C24_LateCompletionDiscarded ==
    \A i \in LateDeliveries :
        SlotCalls(i) \cap { "tab_home.setup", "components.setup",
                            "select_environment", "api.conda_data" } = {}

\* A late completion whose payload was applied to the home tab and the
\* components while the fetch of the newer selection was still in flight.
C24_Witness ==
    /\ \E i \in LateDeliveries :
          { "tab_home.setup", "components.setup" } \subseteq SlotCalls(i)
    /\ \E c \in inflight : c.worker = win.fetches

\* C25 as stated: the corrective branch has no retry cap, so while every
\* payload handled so far has yielded a default_env issue, each completion
\* has been answered by a re-selection and a new fetch (one fetch more than
\* completions handled, the newest still in flight), DataStable has not been
\* reached and no handler has failed.
C25_EveryConflictRefetches ==
    (Conflicts # {} /\ Stable = {}) =>
        /\ Cardinality(Idx("select_environment")) = Cardinality(Conflicts)
        /\ Cardinality(Idx("api.conda_data")) = Cardinality(Conflicts) + 1
        /\ \E c \in inflight : c.worker = win.fetches
        /\ ~win.setup_ready
        /\ Idx("raise") = {}

\* The loop as the code has it, for refreshes: a refresh whose payload had a
\* default_env issue re-selected the default environment and its new fetch
\* is in flight; only the model's fetch budget ends the repetition.
C25_Witness ==
    /\ \E i \in Conflicts :
          /\ ~Initial(i)
          /\ Later(i, "select_environment")
          /\ Later(i, "api.conda_data")
    /\ \E c \in inflight : c.worker = win.fetches
    /\ win.fetches = MaxFetches
    /\ win.raised = None

(***************************************************************************)
(* Properties of what a pool's handlers can read (PoolSpec)                *)
(***************************************************************************)

\* The issues returned by the first n handlers of a run, in handler order.
RECURSIVE IssuesOfFirst(_, _)
IssuesOfFirst(outs, n) ==
    IF n = 0 THEN <<>> ELSE IssuesOfFirst(outs, n - 1) \o outs[n]

\* C26: in a pool run the handler at position k reads exactly the issues
\* returned by handlers 1..k-1 of that run, in that order: none returned by
\* a later handler and none left from an earlier run (the first handler of
\* every run reads an empty collection); a handler that depends on what it
\* reads reports accordingly.
C26_HandlerReadsEarlierIssuesOfRun ==
    pool.solved =>
        /\ Len(pool.reads) = Len(pool.invoked)
        /\ Len(pool.outs) = Len(pool.invoked)
        /\ \A k \in 1..Len(pool.reads) :
              /\ pool.invoked[k] = k
              /\ pool.reads[k] = IssuesOfFirst(pool.outs, k - 1)
              /\ pool.handlers[k].kind = "summary" =>
                    ((pool.outs[k] # <<>>) <=>
                        \E j \in 1..(k - 1) : \E n \in 1..Len(pool.outs[j]) :
                            "conflict" \in pool.outs[j][n].tags)

\* The second run of a pool: its first handler read an empty collection and
\* found nothing, and its third handler read the one issue found before it
\* in this run and reported on it.
C26_Witness ==
    /\ pool.runs = 2
    /\ pool.conda_info = "conda_info"
    /\ Len(pool.reads) = 3
    /\ pool.handlers[1].kind = "default_env"
    /\ pool.handlers[3].kind = "summary"
    /\ Len(pool.reads[3]) = 1
    /\ pool.reads[1] = <<>>
    /\ pool.outs[3] # <<>>

(***************************************************************************)
(* Properties of the components' lifetime (Spec)                           *)
(***************************************************************************)

\* The registry keeps what it holds: every entry stays at its place with the
\* same alias and the same component object.
ComponentsKept ==
    /\ Len(components') >= Len(components)
    /\ \A i \in 1..Len(components) : components'[i] = components[i]

\* Every initializer called so far produced one registered component, and no
\* class or alias was constructed twice.
CreatedOnce ==
    /\ constructed = Len(components)
    /\ \A i, j \in 1..Len(components) :
          (components[i].comp.cls = components[j].comp.cls
             \/ components[i].alias = components[j].alias
             \/ components[i].comp.id = components[j].comp.id) => i = j

SetupTabsRan(w) == \E i \in 1..Len(w.trace) : w.trace[i].e = "setup_tabs"

\* C27 as stated: every component is created exactly once, at window
\* construction (no component is created once the window is constructed),
\* and the registry only grows: a registered alias keeps its component
\* object, none is replaced or removed.
C27_CreatedAtConstruction ==
    /\ []CreatedOnce
    /\ [][/\ ComponentsKept
          /\ win.constructed => constructed' = constructed]_vars

\* C27 amended: every component is created exactly once and the registry
\* only grows (a registered alias keeps its component object, none is
\* replaced or removed); notifications, whats_new, accounts and
\* applications are created at window construction, environments by
\* setup_tabs in initial_setup, when the first payload without default_env
\* issue arrives; nothing is created at any other time.
C27_CreatedOnceAndKept ==
    /\ []CreatedOnce
    /\ [](win.constructed =>
            { "notifications", "whats_new", "accounts", "applications" }
               \subseteq Keys(components))
    /\ []("environments" \in Keys(components) <=> SetupTabsRan(win))
    /\ [][/\ ComponentsKept
          /\ constructed' # constructed =>
                \/ ~win.constructed /\ win'.constructed
                \/ /\ ~SetupTabsRan(win) /\ SetupTabsRan(win')
                   /\ constructed' = constructed + 1]_vars

\* The environments component was created in initial_setup, after a
\* construction that created the other four, and a refresh was handled
\* since.
C27_Witness ==
    /\ Len(components) = 5
    /\ components[5].alias = "environments"
    /\ components[5].comp.id = 5
    /\ win.constructed
    /\ Idx("__reset_conda_data") # {}

(***************************************************************************)
(* MainWindow.update_application, and DialogSpec: any sequence of update    *)
(* checks and clicks on the update button of a window that is shown.       *)
(* dlg.exec_() runs a nested event loop: until the dialog is closed, slots *)
(* (check_for_updates on a refresh) run inside it, so a call of            *)
(* update_application can arrive while an earlier call is still in exec_.  *)
(***************************************************************************)

\* Calls of update_application in one run of the model.
MaxUpdateCalls == 6

\* update_application up to the return of the call, or up to dlg.exec_()
\* when the dialog is displayed.
update_application(self) ==
    LET s0 == [self EXCEPT !.win.update_calls = @ + 1] IN
    IF s0.win.application_update_version = None THEN s0
    ELSE LET dlg == s0.win.dialogs + 1
             s1 == [s0 EXCEPT !.win.dialogs = dlg]
         IN  IF s1.win.dialog_update = 0
             THEN [s1 EXCEPT !.win.dialog_update = dlg,
                             !.win.exec_stack = Append(@, dlg)]
             ELSE [s1 EXCEPT !.win.dialog_update = 0]

\* update_application from the return of dlg.exec_() on: the innermost
\* dialog was closed.
update_application_resumed(self) ==
    [self EXCEPT !.win.exec_stack = SubSeq(@, 1, Len(@) - 1),
                 !.win.dialog_update = 0]

\* Versions of the application, oldest first, and the running one
\* (__version__).
Versions == << "2.5.0", "2.6.0", "2.7.0" >>

navi_version == "2.6.0"

\* version_utils.compare(a, b): negative, zero or positive.
compare(a, b) ==
    LET at(v) == CHOOSE i \in 1..Len(Versions) : Versions[i] = v
    IN  at(a) - at(b)

\* The packages argument of check_for_updates: given is whether it is a
\* non-empty mapping, navigator whether it has a non-empty entry for
\* 'anaconda-navigator', versions the 'versions' of that entry (conda lists
\* them oldest first).
Listings ==
    { <<>>, << "2.5.0" >>, << "2.5.0", "2.6.0" >>, << "2.6.0", "2.7.0" >>,
      << "2.7.0" >> }

UpdatePackages ==
    { [given |-> FALSE, navigator |-> FALSE, versions |-> <<>>],
      [given |-> TRUE, navigator |-> FALSE, versions |-> <<>>] }
    \cup { [given |-> TRUE, navigator |-> TRUE, versions |-> v] : v \in Listings }

\* Packages that list, or do not list, a version newer than the running
\* one.
Listing(newer) ==
    [given |-> TRUE, navigator |-> TRUE,
     versions |-> IF newer THEN << "2.6.0", "2.7.0" >> ELSE << "2.5.0", "2.6.0" >>]

\* MainWindow.check_for_updates(packages), where hide is the value of
\* 'hide_update_dialog' of the configuration.  isVisible() is the button's
\* own visibility: the window is shown.
check_for_updates_IgnoresWasShown(self, packages, hide) ==
    LET s0 == [self EXCEPT !.win.button_update_enabled = FALSE,
                           !.win.button_update_available = FALSE]
        versions == packages.versions
    IN  IF packages.given /\ packages.navigator /\ versions # <<>>
           /\ compare(versions[Len(versions)], navi_version) > 0
        THEN LET s1 == [s0 EXCEPT
                          !.win.application_update_version = versions[Len(versions)],
                          !.win.button_update_enabled = TRUE,
                          !.win.button_update_available = TRUE]
             IN  IF ~hide THEN update_application(s1) ELSE s1
        ELSE s0

check_for_updates(self, packages, hide) ==
    LET was_shown == self.win.button_update_available
        s0 == [self EXCEPT !.win.button_update_enabled = FALSE,
                           !.win.button_update_available = FALSE]
        versions == packages.versions
    IN  IF packages.given /\ packages.navigator /\ versions # <<>>
           /\ compare(versions[Len(versions)], navi_version) > 0
        THEN LET s1 == [s0 EXCEPT
                          !.win.application_update_version = versions[Len(versions)],
                          !.win.button_update_enabled = TRUE,
                          !.win.button_update_available = TRUE]
             IN  IF ~hide /\ ~was_shown THEN update_application(s1) ELSE s1
        ELSE s0

DialogInit ==
    /\ components = ReadyWindow.components
    /\ constructed = ReadyWindow.constructed
    /\ inflight = ReadyWindow.inflight
    /\ win = ReadyWindow.win
    /\ result = Res("none", None)
    /\ watcher = FiredWatcher
    /\ calls = << <<1, "conda_info", "">> >>
    /\ hist = NoHist
    /\ pool = NoPool
    /\ SASS_VARIABLES = SassVariables

\* A refresh is handled, by the event loop of the window or by the one of
\* the innermost dialog: its payload reaches check_for_updates; the update
\* dialog is not disabled.
D_check_for_updates(newer) ==
    /\ win.update_calls < MaxUpdateCalls
    /\ Becomes(check_for_updates(Self, Listing(newer), FALSE))
    /\ result' = Res("check_for_updates", newer)
    /\ UNCHANGED <<watcher, calls, hist, pool, SASS_VARIABLES>>

\* The user clicks the update button; an open dialog, being modal, keeps
\* the button out of reach.
D_clicked ==
    /\ win.button_update_available
    /\ win.exec_stack = <<>>
    /\ win.update_calls < MaxUpdateCalls
    /\ Becomes(update_application(Self))
    /\ result' = Res("clicked", None)
    /\ UNCHANGED <<watcher, calls, hist, pool, SASS_VARIABLES>>

\* The user closes the innermost update dialog and its exec_ returns:
\* declined, or accepted with an updater that could not be started
\* (open_updater returned None).
D_exec_returns(accepted) ==
    /\ win.exec_stack # <<>>
    /\ Becomes(update_application_resumed(Self))
    /\ result' = Res("exec_", accepted)
    /\ UNCHANGED <<watcher, calls, hist, pool, SASS_VARIABLES>>

DialogNext ==
    \/ \E newer \in BOOLEAN : D_check_for_updates(newer)
    \/ D_clicked
    \/ \E accepted \in BOOLEAN : D_exec_returns(accepted)

DialogSpec == DialogInit /\ [][DialogNext]_vars

(***************************************************************************)
(* Properties of update_application (DialogSpec)                           *)
(***************************************************************************)

\* C28: at most one update dialog is displayed at a time: under any
\* sequence of update_application calls, including calls made while an
\* update dialog's exec_ is running, no second dialog is executed while the
\* first is open.
C28_OneUpdateDialog == Len(win.exec_stack) <= 1

\* Two update dialogs are inside exec_ at once: the third call found
\* _dialog_update reset by the second.
C28_Witness ==
    /\ Len(win.exec_stack) = 2
    /\ win.update_calls = 3
    /\ win.dialogs = 3
    /\ win.dialog_update = 3

(***************************************************************************)
(* BusySpec: any sequence of set_busy_status calls, on a window that has   *)
(* just been constructed and on one whose tabs are built.                  *)
(***************************************************************************)

\* Calls of set_busy_status in one run of the model.
MaxBusyCalls == 5

\* Arguments of set_busy_status: the booleans, None (the default), and
\* values that are not booleans (the integer 1, a string).
BusyArguments == { "True", "False", None, "1", "busy" }

BusyInit ==
    /\ \E self \in { MainWindow_init(NoSelf, None).self, ReadyWindow } :
          /\ components = self.components
          /\ constructed = self.constructed
          /\ inflight = self.inflight
          /\ win = self.win
    /\ result = Res("none", None)
    /\ watcher = MainWindow_init(NoSelf, None).watcher
    /\ calls = <<>>
    /\ hist = NoHist
    /\ pool = NoPool
    /\ SASS_VARIABLES = SassVariables

\* set_busy_status(conda) is called.
B_set_busy_status(conda) ==
    /\ win.busy_calls < MaxBusyCalls
    /\ Becomes(set_busy_status([Self EXCEPT !.win.busy_calls = @ + 1], conda))
    /\ result' = Res("set_busy_status", conda)
    /\ UNCHANGED <<watcher, calls, hist, pool, SASS_VARIABLES>>

BusyNext == \E conda \in BusyArguments : B_set_busy_status(conda)

BusySpec == BusyInit /\ [][BusyNext]_vars

(***************************************************************************)
(* Properties of set_busy_status and the timers (BusySpec)                 *)
(***************************************************************************)

\* The running state of every timer of the window w.
Timers(w) == << w.timer_offline, w.timer_health, w.component_timers >>

AllTimersRun(w) ==
    w.timer_offline /\ w.timer_health /\ w.component_timers = Keys(components)

NoTimerRuns(w) ==
    ~w.timer_offline /\ ~w.timer_health /\ w.component_timers = {}

\* C29 as stated: set_busy_status(None), or any value that is not a
\* boolean, leaves busy_conda and the running state of every timer
\* unchanged; set_busy_status(True) sets busy_conda and stops the timers,
\* set_busy_status(False) clears it and starts them; the call emits
\* sig_conda_ready and sig_ready exactly when busy_conda is false after it.
C29_SetBusyStatusEffect ==
    [][result'.op = "set_busy_status" =>
          /\ result'.arg \notin { "True", "False" } =>
                /\ win'.busy_conda = win.busy_conda
                /\ Timers(win') = Timers(win)
          /\ result'.arg = "True" => win'.busy_conda /\ NoTimerRuns(win')
          /\ result'.arg = "False" => ~win'.busy_conda /\ AllTimersRun(win')
          /\ win'.emitted = IF win'.busy_conda THEN {}
                            ELSE { "sig_conda_ready", "sig_ready" }]_vars

\* set_busy_status(True) has stopped the offline timer and the component
\* timers and emitted nothing, and the health-check timer is still running.
C29_Witness ==
    /\ result.op = "set_busy_status"
    /\ result.arg = "True"
    /\ win.busy_conda
    /\ ~win.timer_offline
    /\ win.component_timers = {}
    /\ win.emitted = {}
    /\ win.timer_health

\* C30 as stated: after any sequence of set_busy_status calls with boolean
\* arguments the timers are running if and only if busy_conda is false:
\* every timer that start_timers starts (the offline check, the health
\* check, the component timers) is stopped by stop_timers, and none runs
\* while conda is busy.
C30_TimersRunIffNotBusy ==
    [][(result'.op = "set_busy_status" /\ result'.arg \in { "True", "False" })
          => IF win'.busy_conda THEN NoTimerRuns(win')
             ELSE AllTimersRun(win')]_vars

\* After set_busy_status(False) and set_busy_status(True) conda is busy and
\* the health-check timer, which stop_timers does not stop, is running.
C30_Witness ==
    /\ win.busy_conda
    /\ win.timer_health
    /\ win.busy_calls = 2
    /\ Len(components) = 5

(***************************************************************************)
(* Properties of the prefix selected by _conda_output_ready (OutputSpec)   *)
(***************************************************************************)

\* C31: after _conda_output_ready has handled a completion, current_prefix
\* is an environment that exists according to the API or ROOT_PREFIX, never
\* the prefix of a removed or never-created environment; the handler has
\* issued exactly one select_environment and so one data fetch, for that
\* prefix, and the window is busy while that fetch is in flight.
C31_SelectsExistingPrefixOnce ==
    Handled =>
        /\ conda_environment_exists(win.current_prefix)
              \/ win.current_prefix = ROOT_PREFIX
        /\ win.current_prefix \notin { "gone_env", "absent", None }
        /\ Cardinality(OwnCalls("select_environment")) = 1
        /\ Cardinality(OwnCalls("api.conda_data")) = 1
        /\ Cardinality({ c \in inflight : c.worker = win.fetches
                           /\ c.prefix = win.current_prefix }) = 1
        /\ win.busy_conda
        /\ win.raised = None

\* An action on an environment that does not exist any more, started from
\* one that does not exist either: the root environment was selected.
C31_Witness ==
    /\ Handled
    /\ result.arg.worker.prefix = "gone_env"
    /\ result.arg.worker.old_prefix = "gone_env"
    /\ win.current_prefix = ROOT_PREFIX
    /\ win.busy_conda
    /\ Cardinality(OwnCalls("select_environment")) = 1

(***************************************************************************)
(* MainWindow.closing, closeEvent and restart, and CloseSpec: any sequence *)
(* of close events and restarts on a window that is shown.                 *)
(*   config   [TEST_CI, hide_running_apps_dialog, hide_quit_dialog]        *)
(*   answers  [running, busy, quit]: what the user answers if the          *)
(*            QuitRunningAppsDialog, the QuitBusyDialog, the               *)
(*            QuitApplicationDialog is shown (TRUE: accepted)              *)
(***************************************************************************)

Configs ==
    [TEST_CI : BOOLEAN, hide_running_apps_dialog : BOOLEAN,
     hide_quit_dialog : BOOLEAN]

Answers == [running : BOOLEAN, busy : BOOLEAN, quit : BOOLEAN]

\* config 'running_apps_to_close': the packages whose processes an accepted
\* QuitRunningAppsDialog kills.
running_apps_to_close == { "spyder" }

\* MainWindow.closing(): the window as the call leaves it, and the value
\* returned.
closing(self, config, answers) ==
    LET s0 == [self EXCEPT !.win.closing_calls = @ + 1]
        Return(s, close) ==
            [self |-> [s EXCEPT !.win.closing_result =
                          IF close THEN "True" ELSE "False"],
             close |-> close]
    IN  IF config.TEST_CI THEN Return(s0, TRUE)
        ELSE
        LET asks == ~s0.win.busy_conda /\ ~config.hide_running_apps_dialog
                       /\ s0.win.running_processes # {}
            s1 == IF asks /\ answers.running
                  THEN [s0 EXCEPT !.win.running_processes =
                                     @ \ running_apps_to_close]
                  ELSE s0
            close == ~asks \/ answers.running
        IN  IF ~close THEN Return(s1, FALSE)
            ELSE IF s1.win.busy_conda THEN Return(s1, answers.busy)
            ELSE IF ~config.hide_quit_dialog THEN Return(s1, answers.quit)
            ELSE Return(s1, TRUE)

\* MainWindow.closeEvent(event): ignored is whether event.ignore() was
\* called.
closeEvent(self, config, answers) ==
    LET r == IF self.win.restart_required = "True"
             THEN [self |-> self, close |-> TRUE]
             ELSE closing(self, config, answers)
    IN  IF self.win.restart_required # "True" /\ ~r.close
        THEN [self |-> r.self, ignored |-> TRUE]
        ELSE [self |-> [r.self EXCEPT !.win.visible = FALSE,
                                      !.win.torn_down = TRUE],
              ignored |-> FALSE]

\* MainWindow.restart(): self.close() delivers the close event at once.
restart(self, config, answers) ==
    LET s0 == [self EXCEPT !.win.restart_required = "False"]
        r == closing(s0, config, answers)
    IN  IF ~r.close THEN [self |-> r.self, ignored |-> FALSE]
        ELSE closeEvent([r.self EXCEPT !.win.launched = @ + 1,
                                       !.win.restart_required = "True"],
                        config, answers)

\* A handler of CloseSpec starts: no closing() call made yet.
CloseEntry ==
    [Self EXCEPT !.win.closing_calls = 0, !.win.closing_result = None]

\* A shown window, busy or idle, with or without a running application;
\* the configuration is kept in hist.
CloseInit ==
    /\ \E conda \in { "True", "False" }, apps \in SUBSET { "spyder", "vscode" } :
          LET self == set_busy_status(ReadyWindow, conda) IN
          /\ components = self.components
          /\ constructed = self.constructed
          /\ inflight = self.inflight
          /\ win = [self.win EXCEPT !.running_processes = apps]
    /\ \E config \in Configs : result = Res("config", config)
    /\ watcher = FiredWatcher
    /\ calls = << <<1, "conda_info", "">> >>
    /\ hist = NoHist
    /\ pool = NoPool
    /\ SASS_VARIABLES = SassVariables

\* The configuration chosen at the start.
Config == result.arg

\* The user closes the window: Qt delivers a close event.
C_closeEvent(answers) ==
    /\ win.visible
    /\ LET r == closeEvent(CloseEntry, Config, answers) IN
       /\ Becomes(r.self)
       /\ result' = [Res("closeEvent", Config) EXCEPT !.invoked = r.ignored]
    /\ UNCHANGED <<watcher, calls, hist, pool, SASS_VARIABLES>>

\* The user restarts the application.
C_restart(answers) ==
    /\ win.visible
    /\ LET r == restart(CloseEntry, Config, answers) IN
       /\ Becomes(r.self)
       /\ result' = [Res("restart", Config) EXCEPT !.invoked = r.ignored]
    /\ UNCHANGED <<watcher, calls, hist, pool, SASS_VARIABLES>>

CloseNext ==
    \/ \E answers \in Answers : C_closeEvent(answers)
    \/ \E answers \in Answers : C_restart(answers)

CloseSpec == CloseInit /\ [][CloseNext]_vars

(***************************************************************************)
(* Properties of closing the window (CloseSpec)                            *)
(***************************************************************************)

\* What a close or a restart can change: whether the window is shown, the
\* workers, the processes launched and the applications running.
Closable(w) == << w.visible, w.torn_down, w.launched, w.running_processes >>

\* C32 as stated: the window is hidden and the workers are torn down only
\* after closing() has returned true for that close; a refused close
\* ignores the event and changes nothing; on restart closing() is asked
\* exactly once, and a refused restart launches no new process.
C32_CloseOnlyWhenConfirmed ==
    [][result'.op \in { "closeEvent", "restart" } =>
          /\ (~win'.visible \/ win'.torn_down) =>
                (win'.closing_calls = 1 /\ win'.closing_result = "True")
          /\ win'.closing_result = "False" =>
                /\ Closable(win') = Closable(win)
                /\ result'.op = "closeEvent" => result'.invoked
          /\ result'.op = "restart" => win'.closing_calls = 1
          /\ (result'.op = "restart" /\ win'.closing_result = "False") =>
                win'.launched = win.launched]_vars

\* A close was refused at the quit dialog after the running applications
\* had been killed: the window is still shown.
C32_Witness ==
    /\ result.op = "closeEvent"
    /\ result.invoked
    /\ win.closing_result = "False"
    /\ win.visible
    /\ ~win.torn_down
    /\ win.running_processes = { "vscode" }

(***************************************************************************)
(* MainWindow.show_cancel_process, and CancelSpec: any sequence of cancel  *)
(* requests on a window whose tabs are built.                              *)
(***************************************************************************)

\* MainWindow.show_cancel_process(), where accepted is the result of the
\* ClosePackageManagerDialog's exec_().
show_cancel_process(self, accepted) ==
    IF ~self.win.busy_conda THEN self
    ELSE LET s1 == IF accepted
                   THEN [update_status(self) EXCEPT !.win.processes = {},
                                                    !.win.conda_lock = FALSE]
                   ELSE self
             s2 == [s1 EXCEPT !.win.current_prefix = ROOT_PREFIX]
         IN  IF s1.win.raised # None THEN s1
             ELSE select_environment(set_busy_status(s2, "False"), ROOT_PREFIX)

\* A window with an environment selected, busy with some processes or idle.
CancelInit ==
    /\ \E base \in BaseWindows, conda \in { "True", "False" },
          procs \in SUBSET { "conda", "download" }, lock \in BOOLEAN :
          LET self == set_busy_status(base, conda) IN
          /\ components = self.components
          /\ constructed = self.constructed
          /\ inflight = self.inflight
          /\ win = [self.win EXCEPT !.processes = procs, !.conda_lock = lock]
    /\ result = Res("none", None)
    /\ watcher = FiredWatcher
    /\ calls = << <<1, "conda_info", "">> >>
    /\ hist = NoHist
    /\ pool = NoPool
    /\ SASS_VARIABLES = SassVariables

\* The user asks to cancel the ongoing process and answers the dialog, if
\* one is shown.
X_show_cancel_process(accepted) ==
    /\ win.busy_conda => win.fetches < MaxFetches
    /\ Becomes(show_cancel_process(Entry, accepted))
    /\ result' = Res("show_cancel_process", accepted)
    /\ UNCHANGED <<watcher, calls, hist, pool, SASS_VARIABLES>>

CancelNext == \E accepted \in BOOLEAN : X_show_cancel_process(accepted)

CancelSpec == CancelInit /\ [][CancelNext]_vars

(***************************************************************************)
(* Properties of show_cancel_process (CancelSpec)                          *)
(***************************************************************************)

\* What show_cancel_process can change.
Cancellable(w) ==
    << w.busy_conda, w.current_prefix, w.processes, w.conda_lock, w.fetches,
       w.timer_offline, w.timer_health, w.component_timers >>

\* C33 as stated: show_cancel_process changes state only when the
\* application is busy; when the user declines the dialog the ongoing
\* process is not terminated and the busy status and current_prefix are
\* left unchanged; only an accepted dialog terminates the conda and
\* download processes, clears the lock and re-selects the root environment.
C33_CancelOnlyWhenAccepted ==
    [][result'.op = "show_cancel_process" =>
          /\ ~win.busy_conda =>
                (Cancellable(win') = Cancellable(win) /\ inflight' = inflight)
          /\ (win.busy_conda /\ ~result'.arg) =>
                /\ win'.processes = win.processes
                /\ win'.conda_lock = win.conda_lock
                /\ win'.busy_conda = win.busy_conda
                /\ win'.current_prefix = win.current_prefix
                /\ win'.fetches = win.fetches
          /\ (win.busy_conda /\ result'.arg) =>
                /\ win'.processes = {}
                /\ ~win'.conda_lock
                /\ win'.current_prefix = ROOT_PREFIX
                /\ win'.fetches = win.fetches + 1
                /\ win'.busy_conda]_vars

\* The dialog was declined: the processes go on, and the root environment
\* has been selected and is being fetched.
C33_Witness ==
    /\ result.op = "show_cancel_process"
    /\ result.arg = FALSE
    /\ win.processes = { "conda", "download" }
    /\ win.conda_lock
    /\ win.current_prefix = ROOT_PREFIX
    /\ win.fetches = 3
    /\ \E c \in inflight : c.worker = 3 /\ c.prefix = ROOT_PREFIX
    /\ \E i \in 1..Len(win.trace) :
          win.trace[i].e = "__reset_conda_data" /\ win.trace[i].w = 2

(***************************************************************************)
(* UpdateSpec: any sequence of update checks with any packages and either  *)
(* setting of 'hide_update_dialog', of clicks on the update button and of  *)
(* closed dialogs; calls records the packages of every check.              *)
(***************************************************************************)

\* Calls of check_for_updates in one run of the model.
MaxChecks == 4

UpdateInit ==
    /\ components = ReadyWindow.components
    /\ constructed = ReadyWindow.constructed
    /\ inflight = ReadyWindow.inflight
    /\ win = ReadyWindow.win
    /\ result = Res("none", None)
    /\ watcher = FiredWatcher
    /\ calls = <<>>
    /\ hist = NoHist
    /\ pool = NoPool
    /\ SASS_VARIABLES = SassVariables

\* A refresh or the post-visible setup calls check_for_updates, from the
\* event loop of the window or from the one of the innermost dialog.
U_check_for_updates(packages, hide) ==
    /\ Len(calls) < MaxChecks
    /\ win.update_calls < MaxUpdateCalls
    /\ Becomes(check_for_updates(Self, packages, hide))
    /\ result' = Res("check_for_updates", hide)
    /\ calls' = Append(calls, packages)
    /\ UNCHANGED <<watcher, hist, pool, SASS_VARIABLES>>

UpdateNext ==
    \/ \E packages \in UpdatePackages, hide \in BOOLEAN :
          U_check_for_updates(packages, hide)
    \/ D_clicked
    \/ \E accepted \in BOOLEAN : D_exec_returns(accepted)

UpdateSpec == UpdateInit /\ [][UpdateNext]_vars

(***************************************************************************)
(* Properties of check_for_updates (UpdateSpec)                            *)
(***************************************************************************)

\* The last listed version of the packages is greater than the running one.
NewerListed(packages) ==
    /\ packages.given
    /\ packages.navigator
    /\ packages.versions # <<>>
    /\ \E i, j \in 1..Len(Versions) :
          /\ Versions[i] = packages.versions[Len(packages.versions)]
          /\ Versions[j] = navi_version
          /\ i > j

Limb == 2^26

\* Small pixel values in the model, and the values taken above each of the
\* large bases.
MaxPixels == 70

MaxOffset == 15

Pixel(n) == [hi |-> 0, lo |-> n]

\* 3002399751580320 (three quarters of it reach 2^51), 6004799503160656
\* (three quarters of it reach 2^52), and 2^53 - 16.
LargeBases == { [hi |-> 44739242, lo |-> 44739232],
                [hi |-> 89478485, lo |-> 22369616],
                [hi |-> 134217727, lo |-> 67108848] }

Pixels ==
    { Pixel(n) : n \in 0..MaxPixels }
    \cup { [b EXCEPT !.lo = @ + k] : b \in LargeBases, k \in 0..MaxOffset }

\* a <= b on two-limb numbers.
Leq(a, b) == a.hi < b.hi \/ (a.hi = b.hi /\ a.lo <= b.lo)

\* 3 * v, exactly: the quarters of value * 0.75.
Quarters(v) ==
    [hi |-> 3 * v.hi + (3 * v.lo) \div Limb, lo |-> (3 * v.lo) % Limb]

\* The quarters of the double nearest to q / 4: below 2^51 every quarter
\* is a double, from 2^51 on doubles are 1/2 apart, from 2^52 on 1 apart;
\* a tie goes to the double with an even significand.
RoundToDouble(q) ==
    LET step == IF q.hi < 2^27 THEN 1 ELSE IF q.hi < 2^28 THEN 2 ELSE 4
        r    == q.lo % step
        down == [q EXCEPT !.lo = @ - r]
        up   == IF down.lo + step = Limb
                THEN [hi |-> down.hi + 1, lo |-> 0]
                ELSE [down EXCEPT !.lo = @ + step]
    IN  IF 2 * r < step THEN down
        ELSE IF 2 * r > step THEN up
        ELSE IF down.lo % (2 * step) = 0 THEN down ELSE up

\* int(q / 4): truncation.
Truncate(q) ==
    [hi |-> q.hi \div 4, lo |-> (q.hi % 4) * (Limb \div 4) + q.lo \div 4]

\* scale_pixels(match), on the value of match.group(1) and up to the
\* formatting of the result.
scale_pixels_ScalesOne(value) ==
    IF Leq(value, Pixel(0)) THEN value
    ELSE Truncate(RoundToDouble(Quarters(value)))

scale_pixels(value) ==
    IF Leq(value, Pixel(1)) THEN value
    ELSE Truncate(RoundToDouble(Quarters(value)))

\* A `<digits>px` of the style sheet is matched.
ScaleInit ==
    /\ \E value \in Pixels : result = Res("match", value)
    /\ components = <<>>
    /\ constructed = NoSelf.constructed
    /\ inflight = {}
    /\ win = NoSelf.win
    /\ watcher = FiredWatcher
    /\ calls = <<>>
    /\ hist = NoHist
    /\ pool = NoPool
    /\ SASS_VARIABLES = SassVariables

\* re.sub replaces the match by what scale_pixels returns.
S_scale_pixels ==
    /\ result.op = "match"
    /\ result' = [Res("scale_pixels", result.arg)
                    EXCEPT !.value = scale_pixels(result.arg)]
    /\ UNCHANGED <<components, constructed, inflight, win, watcher, calls,
                   hist, pool, SASS_VARIABLES>>

ScaleNext == S_scale_pixels

ScaleSpec == ScaleInit /\ [][ScaleNext]_vars

(***************************************************************************)
(* Properties of scale_pixels (ScaleSpec)                                  *)
(***************************************************************************)

\* floor(3 * v / 4), exactly.
FloorThreeQuarters(v) == Truncate(Quarters(v))

\* n + 1 on two-limb numbers.
PlusOne(n) ==
    IF n.lo + 1 = Limb THEN [hi |-> n.hi + 1, lo |-> 0]
    ELSE [n EXCEPT !.lo = @ + 1]

\* The values whose three quarters are below 2^51: v < 2^53 / 3.
ExactlyScaled(v) == Quarters(v).hi < 2^27

MaxGlobalStatements == 1

MaxStatements == 2

\* The text between ':' and ';' of a statement: an int literal, a text that
\* is no Python literal, and a text with a colon in it.
SassTexts == { " 8", " #fff", " a:b" }

SassStatements == [name : SassNames, value : SassTexts]

SourcesUpTo(n) == UNION { [1..k -> SassStatements] : k \in 0..n }

\* What the files hold: global is the file at GLOBAL_SASS_STYLES_PATH, theme
\* what read_files merges from the `<theme>.scss` files.
SassFiles ==
    [global : SourcesUpTo(MaxGlobalStatements), theme : SourcesUpTo(MaxStatements)]

\* string.ascii_uppercase, as far as the first characters of the names go.
ascii_uppercase == { "W", "C", "F" }

\* name[0].
FirstCharacter(name) ==
    IF name = "WIDGET_CONTENT_PADDING" THEN "W"
    ELSE IF name = "COLOR_FOREGROUND_UPGRADE" THEN "C"
    ELSE IF name = "FONT_SIZE" THEN "F"
    ELSE "f"

\* var[1:-1].split(':') has exactly two parts.
SplitsInTwo(statement) == statement.value # " a:b"

\* value.strip().
strip(value) ==
    IF value = " 8" THEN "8" ELSE IF value = " #fff" THEN "#fff" ELSE "a:b"

\* ast.literal_eval(value) under contextlib.suppress: the literal's value,
\* or the text itself when it is no literal.
literal_eval(value) ==
    IF value = "8" THEN IntValue("8") ELSE StrValue(value)

\* The loop over the statements of data, from statement k on.
RECURSIVE assign_variables(_, _, _)
assign_variables(variables, data, k) ==
    IF k > Len(data) THEN [variables |-> variables, raised |-> None]
    ELSE IF ~SplitsInTwo(data[k])
         THEN [variables |-> variables, raised |-> "ValueError"]
    ELSE IF FirstCharacter(data[k].name) \in ascii_uppercase
         THEN assign_variables(
                  [variables EXCEPT
                      ![data[k].name] = literal_eval(strip(data[k].value))],
                  data, k + 1)
    ELSE assign_variables(variables, data, k + 1)

\* load_sass_variables(path=..., theme=...): path and theme say whether
\* the argument is given; the outcome is the new global and the exception
\* raised, if any.
load_sass_variables_KeepsEarlier(path, theme, files) ==
    IF path THEN assign_variables(SASS_VARIABLES, files.global, 1)
    ELSE IF theme THEN assign_variables(SASS_VARIABLES, files.theme, 1)
    ELSE [variables |-> SASS_VARIABLES, raised |-> None]

load_sass_variables(path, theme, files) ==
    IF path THEN assign_variables(SassVariables, files.global, 1)
    ELSE IF theme THEN assign_variables(SassVariables, files.theme, 1)
    ELSE [variables |-> SassVariables, raised |-> None]

\* load_style_sheet(), as far as the global variables go.
load_style_sheet(files) ==
    LET r == load_sass_variables(TRUE, FALSE, files) IN
    IF r.raised # None THEN r
    ELSE load_sass_variables(FALSE, TRUE, files)

\* The files of the run are in result.arg.
StyleInit ==
    /\ \E files \in SassFiles :
          result = Res("none", [files |-> files, path |-> FALSE, theme |-> FALSE])
    /\ SASS_VARIABLES = SassVariables
    /\ components = <<>>
    /\ constructed = NoSelf.constructed
    /\ inflight = {}
    /\ win = NoSelf.win
    /\ watcher = FiredWatcher
    /\ calls = <<>>
    /\ hist = NoHist
    /\ pool = NoPool

L_load_sass_variables(path, theme) ==
    LET r == load_sass_variables(path, theme, result.arg.files) IN
    /\ SASS_VARIABLES' = r.variables
    /\ result' = [Res("load_sass_variables",
                       [files |-> result.arg.files, path |-> path, theme |-> theme])
                    EXCEPT !.raised = r.raised]
    /\ UNCHANGED <<components, constructed, inflight, win, watcher, calls,
                   hist, pool>>

L_load_style_sheet ==
    LET r == load_style_sheet(result.arg.files) IN
    /\ SASS_VARIABLES' = r.variables
    /\ result' = [Res("load_style_sheet",
                       [files |-> result.arg.files, path |-> FALSE, theme |-> FALSE])
                    EXCEPT !.raised = r.raised]
    /\ UNCHANGED <<components, constructed, inflight, win, watcher, calls,
                   hist, pool>>

StyleNext ==
    \/ \E path, theme \in BOOLEAN : L_load_sass_variables(path, theme)
    \/ L_load_style_sheet

StyleSpec == StyleInit /\ [][StyleNext]_vars

(***************************************************************************)
(* Properties of load_sass_variables and load_style_sheet (StyleSpec)      *)
(***************************************************************************)

\* The source has a statement for the name.
Defines(data, name) == \E k \in 1..Len(data) : data[k].name = name

\* The name starts with an upper-case ASCII letter.
UpperCaseName(name) == name \in { "WIDGET_CONTENT_PADDING", "COLOR_FOREGROUND_UPGRADE", "FONT_SIZE" }

\* The value the last statement of the source for the name gives it.
LastValueOf(data, name) ==
    LET k == CHOOSE i \in 1..Len(data) :
                 /\ data[i].name = name
                 /\ \A j \in (i + 1)..Len(data) : data[j].name # name
    IN  IF data[k].value = " 8" THEN IntValue("8") ELSE StrValue("#fff")

\* C36: every load_sass_variables call starts from fresh defaults: after it
\* returns, a variable that the loaded source does not define has its
\* default value whatever earlier loads assigned, only names starting with
\* an upper-case ASCII letter are assigned, and a call with neither path
\* nor theme yields exactly the defaults; after load_style_sheet the global
\* variables reflect only the theme file, not the global SASS file loaded
\* just before it.
C36_LoadsStartFromDefaults ==
    /\ (result.op = "load_sass_variables" /\ result.raised = None) =>
          LET data == IF result.arg.path THEN result.arg.files.global
                      ELSE IF result.arg.theme THEN result.arg.files.theme
                      ELSE <<>>
          IN  /\ \A n \in SassNames :
                    ~Defines(data, n) => SASS_VARIABLES[n] = SassVariables[n]
              /\ \A n \in SassNames :
                    SASS_VARIABLES[n] # SassVariables[n] => UpperCaseName(n)
              /\ (~result.arg.path /\ ~result.arg.theme) =>
                    SASS_VARIABLES = SassVariables
    /\ (result.op = "load_style_sheet" /\ result.raised = None) =>
          \A n \in SassNames :
              SASS_VARIABLES[n] =
                  IF UpperCaseName(n) /\ Defines(result.arg.files.theme, n)
                  THEN LastValueOf(result.arg.files.theme, n)
                  ELSE SassVariables[n]

\* load_style_sheet returned: the global file sets WIDGET_CONTENT_PADDING,
\* the theme sets FONT_SIZE and font_size; the padding has its default,
\* FONT_SIZE the theme's value, and font_size was not assigned.
C36_Witness ==
    /\ result.op = "load_style_sheet"
    /\ result.raised = None
    /\ result.arg.files.global =
          << [name |-> "WIDGET_CONTENT_PADDING", value |-> " 8"] >>
    /\ result.arg.files.theme =
          << [name |-> "FONT_SIZE", value |-> " 8"],
             [name |-> "font_size", value |-> " #fff"] >>
    /\ SASS_VARIABLES["WIDGET_CONTENT_PADDING"] = IntValue("5")
    /\ SASS_VARIABLES["FONT_SIZE"] = IntValue("8")
    /\ SASS_VARIABLES["font_size"] = NoValue

(***************************************************************************)
(* app/main.py: main, and MainSpec: one run of main() under every command  *)
(* line and every state of the environment.                                *)
(***************************************************************************)

\* What parse_arguments returns, as far as main reads it.
MainOptions == [version : BOOLEAN, debug : BOOLEAN, reset : BOOLEAN, removelock : BOOLEAN]

\* The environment of the run: is_conda_available(), os.path.isdir(CONF_PATH),
\* whether shutil.rmtree(CONF_PATH) succeeds, and what remove_lock() and
\* remove_pid() return.
MainEnvironments ==
    [conda : BOOLEAN, isdir : BOOLEAN, rmtree : BOOLEAN, lock : BOOLEAN, pid : BOOLEAN]

\* A run that has done nothing yet: whether the arguments were parsed, the
\* status given to sys.exit, the value returned, whether rmtree, remove_lock
\* and remove_pid were called, and whether start_app was called.
NoRun ==
    [parsed |-> FALSE, exit |-> None, returned |-> None, removed |-> FALSE,
     unlocked |-> FALSE, started |-> FALSE, bis_debug |-> FALSE]

\* main().
main(env, options) ==
    IF ~env.conda THEN [NoRun EXCEPT !.returned = "1"]
    ELSE LET r0 == [NoRun EXCEPT !.parsed = TRUE] IN
         IF options.version THEN [r0 EXCEPT !.exit = "0"]
         ELSE LET r1 == [r0 EXCEPT !.bis_debug = options.debug] IN
              IF options.reset /\ env.isdir
              THEN [r1 EXCEPT !.removed = TRUE,
                              !.exit = IF env.rmtree THEN "0" ELSE "1"]
              ELSE IF options.removelock
              THEN [r1 EXCEPT !.unlocked = TRUE,
                              !.exit = IF env.lock /\ env.pid THEN "0" ELSE "1"]
              ELSE [r1 EXCEPT !.started = TRUE, !.returned = "start_app"]

\* The command is about to run.
MainInit ==
    /\ \E env \in MainEnvironments, options \in MainOptions :
          result = Res("argv", [env |-> env, options |-> options])
    /\ components = <<>>
    /\ constructed = NoSelf.constructed
    /\ inflight = {}
    /\ win = NoSelf.win
    /\ watcher = FiredWatcher
    /\ calls = <<>>
    /\ hist = NoHist
    /\ pool = NoPool
    /\ SASS_VARIABLES = SassVariables

\* main() runs to its return or its exit.
M_main ==
    /\ result.op = "argv"
    /\ result' = [op |-> "main", arg |-> result.arg,
                  run |-> main(result.arg.env, result.arg.options)]
    /\ UNCHANGED <<components, constructed, inflight, win, watcher, calls,
                   hist, pool, SASS_VARIABLES>>

MainNext == M_main

MainSpec == MainInit /\ [][MainNext]_vars

(***************************************************************************)
(* Properties of main (MainSpec)                                           *)
(***************************************************************************)

\* C37 as stated: main() never starts the application when conda is
\* unavailable (it returns 1 before parsing arguments) or when --version,
\* --reset or --removelock is given: --version exits 0, --reset exits 0
\* after a successful removal of the configuration directory and 1 after a
\* failed one, and --removelock exits 0 only if both the lock and the pid
\* file were removed and 1 otherwise, the options being handled in that
\* order.
C37_NeverStartsOnMaintenanceOptions ==
    result.op = "main" =>
        LET env == result.arg.env
            options == result.arg.options
            run == result.run
        IN  /\ ~env.conda =>
                  (run.returned = "1" /\ ~run.parsed /\ ~run.started)
            /\ (env.conda /\ (options.version \/ options.reset \/ options.removelock)) =>
                  ~run.started
            /\ (env.conda /\ options.version) =>
                  (run.exit = "0" /\ ~run.removed /\ ~run.unlocked)
            /\ (env.conda /\ ~options.version /\ run.removed) =>
                  /\ options.reset
                  /\ ~run.unlocked
                  /\ run.exit = IF env.rmtree THEN "0" ELSE "1"
            /\ (env.conda /\ ~options.version /\ run.unlocked) =>
                  /\ options.removelock
                  /\ run.exit = IF env.lock /\ env.pid THEN "0" ELSE "1"

\* --reset was given with conda available and no configuration directory:
\* nothing was removed, main did not exit, and the application was started.
C37_Witness ==
    /\ result.op = "main"
    /\ result.arg.env.conda
    /\ result.arg.options.reset
    /\ ~result.arg.options.version
    /\ ~result.arg.options.removelock
    /\ ~result.arg.env.isdir
    /\ ~result.run.removed
    /\ result.run.exit = None
    /\ result.run.started

====
